---- MODULE Spec2Model ----
(***************************************************************************)
(* Model of the Createve.AI Nexus Server runtime: the persistent job queue *)
(* and its worker pool (core/queue.py), the authorization gate             *)
(* (core/security.py), the REST routes (api/routes.py), the MCP registries *)
(* (mcp/resources.py, mcp/tools.py) and the WebSocket MCP endpoint of      *)
(* main.py.                                                                *)
(*                                                                         *)
(* One step of the model is one uninterrupted run of a coroutine between   *)
(* two suspension points of the asyncio event loop.  The worker's          *)
(* `await self.api_executor.execute_api(...)` is a suspension point, so a  *)
(* worker iteration is two steps: pick-up and completion.                  *)
(***************************************************************************)
EXTENDS Integers, Sequences, FiniteSets, TLC

\* ------------------------------------------------------------------ bounds
MaxJobs == 3            \* number of Job IDs uuid4 hands out in one behaviour
MaxRestarts == 1        \* number of process restarts in one behaviour
max_queue_size == 2     \* config.max_queue_size, scaled down
max_threads == 2        \* config.max_threads, scaled down
MaxMtime == 2           \* modification times a plugin file can carry
MaxFileLen == 4         \* number of Jobs in a state file found at a start
MaxReloadJobs == 1      \* number of Jobs submitted while plugins are reloaded

\* --------------------------------------------------------------- constants
UNAUTHORIZED == 401     \* APIErrorCode.UNAUTHORIZED
NOT_FOUND == 404        \* APIErrorCode.NOT_FOUND
INVALID_INPUT == 400    \* APIErrorCode.INVALID_INPUT
API_ERROR == 500        \* APIErrorCode.API_ERROR
HTTP_OK == 200          \* status of a response that is not an error
HTTP_FORBIDDEN == 403   \* HTTPBearer's "Not authenticated"

JobIds == 1..MaxJobs
Workers == 1..max_threads
\* self.workers after start_workers: one task per configured thread
WorkerList == [i \in 1..max_threads |-> i]

\* config.api_keys: the configured credentials
api_keys == {"k1", "k2"}
\* a bearer token that is not configured, and the absence of the header
BadKey == "bad"
NoCredential == "absent"
Credentials == api_keys \cup {BadKey, NoCredential}

\* Strings whose characters matter (paths, URIs, tool names) are sequences of
\* one-character strings.
DirectPath == <<"m", "_", "a", "/", "d">>
QueuedPath == <<"m", "_", "a", "/", "q">>

ApiPrefix == <<"/", "a", "p", "i", "/">>
QueueSuffix == <<"/", "q", "u", "e", "u", "e">>
\* GET /openapi/openapi.json and GET /openapi/{module}.json for module m_a
OpenapiAllUrl == <<"/", "o", "p", "e", "n", "a", "p", "i", "/", "o", "p", "e", "n", "a", "p", "i", ".", "j", "s", "o", "n">>
OpenapiModuleUrl == <<"/", "o", "p", "e", "n", "a", "p", "i", "/", "m", "_", "a", ".", "j", "s", "o", "n">>
\* FastAPI's own schema route
BuiltinOpenapiUrl == <<"/", "o", "p", "e", "n", "a", "p", "i", ".", "j", "s", "o", "n">>
\* the path prefixes authenticate_request lets through
ExemptPrefixes ==
    { <<"/", "d", "o", "c", "s">>,
      <<"/", "r", "e", "d", "o", "c">>,
      <<"/", "o", "p", "e", "n", "a", "p", "i", ".", "j", "s", "o", "n">>,
      <<"/", "f", "a", "v", "i", "c", "o", "n", ".", "i", "c", "o">> }

\* resource URIs
QueueScheme == <<"q", "u", "e", "u", "e", ":", "/", "/">>
SchemeSep == <<":", "/", "/">>
DocsReadme == <<"d", "o", "c", "s", ":", "/", "/", "r", "e", "a", "d", "m", "e">>
UnknownUri == <<"x", ":", "/", "/", "y">>
\* str(uuid4()) of the model's Job ids
Digits == <<"0", "1", "2", "3", "4", "5", "6", "7", "8", "9">>
IdString(id) == <<Digits[id + 1]>>
QueueUri(id) == QueueScheme \o IdString(id)

\* main.py api_registry: the two demo endpoints and their queue_mode
TextAnalyzerPath == <<"t", "e", "x", "t", "_", "p", "r", "o", "c", "e", "s", "s", "i", "n", "g", "/", "t", "e", "x", "t", "A", "n", "a", "l", "y", "z", "e", "r">>
TextSummarizerPath == <<"t", "e", "x", "t", "_", "p", "r", "o", "c", "e", "s", "s", "i", "n", "g", "/", "t", "e", "x", "t", "S", "u", "m", "m", "a", "r", "i", "z", "e", "r">>
api_registry ==
    [p \in {TextAnalyzerPath, TextSummarizerPath} |->
        [queue_mode |-> (p = TextSummarizerPath)]]
\* a request field that is not in the message (data.get returns None)
Missing == <<>>

\* ------------------------------------------- handler classes (plugins)
\* CompatibilityChecker.SUPPORTED_TYPES
SUPPORTED_TYPES == {"STRING", "NUMBER", "FLOAT", "INTEGER", "IMAGE", "VIDEO",
                    "FILE", "BOOLEAN", "DICT", "LIST"}
\* the type tags handler classes of the model declare; LATENT is not supported
Tags == {"STRING", "IMAGE", "LATENT"}
FieldNames == {"text"}

\* One entry of INPUT_TYPES()["required"|"optional"].  shape "tuple" is the
\* declaration (tag, {...}); shape "bare" is the tag alone, not in a tuple.
InputFields ==
    [name : FieldNames, section : {"required", "optional"},
     shape : {"tuple", "bare"}, tag : Tags]

\* A handler class as the checker and the executor look at it: which
\* attributes it has, whether the method FUNCTION names exists and is
\* callable, its input fields, and RETURN_TYPES with its Python type.
HandlerClasses ==
    [has_INPUT_TYPES : BOOLEAN, has_RETURN_TYPES : BOOLEAN, has_FUNCTION : BOOLEAN,
     function_callable : BOOLEAN,
     inputs : {{}} \cup {{f} : f \in InputFields},
     return_shape : {"tuple", "list"},
     RETURN_TYPES : {<<>>} \cup {<<t>> : t \in Tags}]

FULLY_COMPATIBLE == "fully_compatible"
PARTIALLY_COMPATIBLE == "partially_compatible"
INCOMPATIBLE == "incompatible"

BinaryTypes == {"IMAGE", "VIDEO", "FILE"}

\* CompatibilityChecker._check_input_types: only a declaration that is a
\* non-empty tuple with a string in front is looked at
check_input_types(cls) ==
    IF \E f \in cls.inputs : f.shape = "tuple" /\ f.tag \notin SUPPORTED_TYPES
    THEN [compatible |-> FALSE, reason |-> "Unsupported type", convertible |-> {}]
    ELSE [compatible |-> TRUE, reason |-> "",
          convertible |-> {f.name : f \in {g \in cls.inputs :
                                g.shape = "tuple" /\ g.tag \in BinaryTypes}}]

\* CompatibilityChecker._check_output_types
check_output_types(cls) ==
    IF cls.return_shape # "tuple"
    THEN [compatible |-> FALSE, reason |-> "RETURN_TYPES must be a tuple", convertible |-> {}]
    ELSE IF \E i \in DOMAIN cls.RETURN_TYPES : cls.RETURN_TYPES[i] \notin SUPPORTED_TYPES
    THEN [compatible |-> FALSE, reason |-> "Unsupported return type", convertible |-> {}]
    ELSE [compatible |-> TRUE, reason |-> "",
          convertible |-> {i \in DOMAIN cls.RETURN_TYPES : cls.RETURN_TYPES[i] \in BinaryTypes}]

\* variant of the checker: the output types are not validated
check_node_compatibility_NoOutputCheck(cls) ==
    IF ~cls.has_INPUT_TYPES \/ ~cls.has_RETURN_TYPES
    THEN [status |-> INCOMPATIBLE, reason |-> "Missing required attributes (INPUT_TYPES or RETURN_TYPES)"]
    ELSE IF ~cls.has_FUNCTION
    THEN [status |-> INCOMPATIBLE, reason |-> "Missing FUNCTION attribute"]
    ELSE IF ~check_input_types(cls).compatible
    THEN [status |-> INCOMPATIBLE, reason |-> "Incompatible inputs"]
    ELSE IF ~cls.function_callable
    THEN [status |-> INCOMPATIBLE, reason |-> "Function not found or not callable"]
    ELSE [status |-> FULLY_COMPATIBLE, reason |-> ""]

\* CompatibilityChecker.check_node_compatibility
check_node_compatibility(cls) ==
    IF ~cls.has_INPUT_TYPES \/ ~cls.has_RETURN_TYPES
    THEN [status |-> INCOMPATIBLE, reason |-> "Missing required attributes (INPUT_TYPES or RETURN_TYPES)"]
    ELSE IF ~cls.has_FUNCTION
    THEN [status |-> INCOMPATIBLE, reason |-> "Missing FUNCTION attribute"]
    ELSE IF ~check_input_types(cls).compatible
    THEN [status |-> INCOMPATIBLE, reason |-> "Incompatible inputs"]
    ELSE IF ~check_output_types(cls).compatible
    THEN [status |-> INCOMPATIBLE, reason |-> "Incompatible outputs"]
    ELSE IF ~cls.function_callable
    THEN [status |-> INCOMPATIBLE, reason |-> "Function not found or not callable"]
    ELSE [status |-> FULLY_COMPATIBLE, reason |-> ""]

\* a well-formed handler class with one required STRING field
GoodClass ==
    [has_INPUT_TYPES |-> TRUE, has_RETURN_TYPES |-> TRUE, has_FUNCTION |-> TRUE,
     function_callable |-> TRUE,
     inputs |-> {[name |-> "text", section |-> "required", shape |-> "tuple", tag |-> "STRING"]},
     return_shape |-> "tuple", RETURN_TYPES |-> <<"STRING">>]
\* the same class returning a type that is not supported
BadOutputClass == [GoodClass EXCEPT !.RETURN_TYPES = <<"LATENT">>]
\* the same class with its field declared ("LATENT") -- a string, no tuple
BareInputClass ==
    [GoodClass EXCEPT !.inputs =
        {[name |-> "text", section |-> "required", shape |-> "bare", tag |-> "LATENT"]}]

\* a file of the plugin directory is absent
NoPlugin == [GoodClass EXCEPT !.has_INPUT_TYPES = FALSE, !.has_RETURN_TYPES = FALSE,
                              !.has_FUNCTION = FALSE, !.function_callable = FALSE,
                              !.inputs = {}, !.RETURN_TYPES = <<>>]

\* the plugin directory: for each path the class NODE_CLASS_MAPPINGS exports
\* there (or NoPlugin) and its entry in API_SERVER_QUEUE_MODE
InitialDir ==
    [p \in {DirectPath, QueuedPath} |->
        [class |-> GoodClass, queue_mode |-> (p = QueuedPath)]]

\* APILoader.load_apis: the table built from the directory, one descriptor
\* per class the checker classified FULLY_COMPATIBLE
load_apis(dir) ==
    [p \in {q \in DOMAIN dir :
                /\ dir[q].class # NoPlugin
                /\ check_node_compatibility(dir[q].class).status = FULLY_COMPATIBLE} |->
        [class |-> dir[p].class, queue_mode |-> dir[p].queue_mode,
         compatibility |-> check_node_compatibility(dir[p].class)]]

\* the endpoint table (path -> descriptor) loaded at startup, which the
\* routes were generated from
apis == load_apis(InitialDir)
QueuedPaths == {p \in DOMAIN apis : apis[p].queue_mode}
DirectPaths == {p \in DOMAIN apis : ~apis[p].queue_mode}

\* ---------------------------------------------------------------- payloads
\* Every payload (result, error, pending marker, Python None) is a record of
\* one shape so that payloads can be compared.
None == [kind |-> "none", code |-> 0, id |-> 0]
PendingMarker(queue_id) == [kind |-> "pending", code |-> 0, id |-> queue_id]
ResultOf(queue_id) == [kind |-> "result", code |-> HTTP_OK, id |-> queue_id]
ErrorResponse(code) == [kind |-> "error", code |-> code, id |-> 0]

SchemaDocument == [kind |-> "schema", code |-> HTTP_OK, id |-> 0]

\* models/queue.py QueueItem.__init__; `data` is the set of field names of
\* the submitted input, and the routes of the model send every field
QueueItem(queue_id, api_key, endpoint) ==
    [queue_id |-> queue_id, api_key |-> api_key, endpoint |-> endpoint,
     data |-> FieldNames, status |-> "queued", result |-> None, error |-> None]

VARIABLES
    queue,              \* QueueManager.queue: queue_id -> QueueItem
    processing_queue,   \* QueueManager.processing_queue (asyncio.Queue), FIFO
    state_file,         \* the JSON state file: exists flag and "queue" list
    worker_pc,          \* per worker: "get" (awaiting an id) or "exec"
    worker_item,        \* per worker: the queue_id it is executing, or 0
    next_id,            \* the next fresh uuid4
    restarts,           \* number of process restarts so far
    resume_on_startup,  \* config.resume_on_startup of the running process
    tools,              \* ToolRegistry.tools: tool name -> api_path
    resource_queue_manager, \* ResourceRegistry.queue_manager is set
    active_connections, \* main.py active_connections: the connected clients
    apis_dir,           \* the plugin directory: path -> exported class, queue mode
    api_files_mtimes,   \* APILoader.api_files_mtimes: the directory as last loaded
    executor_apis,      \* APIExecutor.apis: the live endpoint table
    watcher_pc,         \* api_watcher: "sleep", or "load" inside load_apis
    checked,            \* the last class given to the checker and its verdict
    generated,          \* the last class given to the schema generators, its schemas
    adder_pc,           \* add_to_queue between its two writes: "idle" or "save"
    executions,         \* history: queue_id -> calls of execute_api by workers in this run
    marshaled,          \* the last call of the executor's marshaling, and its outcome
    workers,            \* QueueManager.workers: the list of worker tasks
    stop_pc,            \* stop_workers: "idle", "gather" while it waits, "done"
    resp                \* the response of the last call, for observation

McpVars == <<tools, resource_queue_manager, active_connections>>
LoaderVars == <<apis_dir, api_files_mtimes, executor_apis, watcher_pc, checked,
               generated, executions, adder_pc, marshaled, workers, stop_pc>>

vars == <<queue, processing_queue, state_file, worker_pc, worker_item,
          next_id, restarts, resume_on_startup, tools,
          resource_queue_manager, active_connections, apis_dir,
          api_files_mtimes, executor_apis, watcher_pc, checked, generated,
          executions, adder_pc, marshaled, workers, stop_pc, resp>>

NoMarshal == [op |-> "none"]

NoResp == [op |-> "none", path |-> <<>>, cred |-> NoCredential, id |-> 0,
           code |-> 0, body |-> None, invoked |-> FALSE]

\* no class has been given to the checker yet
NoCheck == [cls |-> NoPlugin, verdict |-> [status |-> "none", reason |-> ""]]

\* ------------------------------------------- schema generation
\* the input fields of the classes the schema generators are given
SchemaFields ==
    [name : {"text", "count"}, section : {"required", "optional"},
     shape : {"tuple"}, tag : {"STRING", "IMAGE"}]

\* compatible classes with any set of those fields; input_types_callable
\* tells whether INPUT_TYPES is a method (classmethod) or a plain attribute
SchemaClasses ==
    {[has_INPUT_TYPES |-> TRUE, has_RETURN_TYPES |-> TRUE, has_FUNCTION |-> TRUE,
      function_callable |-> TRUE, inputs |-> S, return_shape |-> "tuple",
      RETURN_TYPES |-> <<"STRING">>, input_types_callable |-> b] :
        S \in SUBSET SchemaFields, b \in BOOLEAN}

\* the names INPUT_TYPES lists in one section
SectionFields(cls, section) == {f.name : f \in {g \in cls.inputs : g.section = section}}

\* OpenAPIGenerator._generate_request_schema: INPUT_TYPES is called when it is
\* callable and read when it is not (_get_input_types); "required" is a list
\* without repetitions (the keys of a dict), kept here as a set
generate_request_schema(cls) ==
    [properties |-> SectionFields(cls, "required") \cup SectionFields(cls, "optional"),
     required |-> SectionFields(cls, "required")]

\* ToolRegistry._get_input_schema: the empty schema when INPUT_TYPES is not
\* callable
get_input_schema(cls) ==
    IF ~cls.input_types_callable
    THEN [properties |-> {}, required |-> {}]
    ELSE [properties |-> SectionFields(cls, "required") \cup SectionFields(cls, "optional"),
          required |-> SectionFields(cls, "required")]

\* no schema has been generated yet
NoSchema == [cls |-> [inputs |-> {}, input_types_callable |-> TRUE],
             request_schema |-> [properties |-> {}, required |-> {}],
             input_schema |-> [properties |-> {}, required |-> {}],
             done |-> FALSE]

\* ------------------------------------------------------------- persistence
RECURSIVE SeqOfSet(_)
\* the ids of a set in ascending order: dict insertion order of the Job map
\* (ids are handed out in ascending order and reloaded in file order)
SeqOfSet(S) ==
    IF S = {} THEN <<>>
    ELSE LET m == CHOOSE x \in S : \A y \in S : x <= y
         IN <<m>> \o SeqOfSet(S \ {m})

\* QueueItem.to_dict: one entry per field (timestamps are not modelled)
to_dict(item) ==
    [queue_id |-> item.queue_id, api_key |-> item.api_key,
     endpoint |-> item.endpoint, data |-> item.data, status |-> item.status,
     result |-> item.result, error |-> item.error]

\* variant of from_dict: the input is not read back
from_dict_DropsData(item_data) ==
    [QueueItem(item_data.queue_id, item_data.api_key, item_data.endpoint)
        EXCEPT !.data = {}, !.status = item_data.status,
               !.result = item_data.result, !.error = item_data.error]

\* QueueItem.from_dict: a new item from the four constructor fields, then
\* status, result and error are set from the entry
from_dict(item_data) ==
    [QueueItem(item_data.queue_id, item_data.api_key, item_data.endpoint)
        EXCEPT !.data = item_data.data, !.status = item_data.status,
               !.result = item_data.result, !.error = item_data.error]

\* variant of _save_state: finished Jobs are left out of the file
SavedState_OnlyPending(q) ==
    LET ids == SeqOfSet({id \in DOMAIN q : q[id].status \in {"queued", "processing"}})
    IN [exists |-> TRUE, queue |-> [i \in 1..Len(ids) |-> to_dict(q[ids[i]])]]

\* QueueManager._save_state: the whole Job map, in insertion order
SavedState(q) ==
    [exists |-> TRUE,
     queue |-> [i \in 1..Cardinality(DOMAIN q) |-> to_dict(q[SeqOfSet(DOMAIN q)[i]])]]

Range(f) == {f[i] : i \in DOMAIN f}

\* dict assignment self.queue[id] = item
Put(q, id, item) == [x \in DOMAIN q \cup {id} |-> IF x = id THEN item ELSE q[x]]

EmptyMap == [x \in {} |-> None]

RECURSIVE LoadItems(_, _, _)
\* the loop of QueueManager._load_state over state_data["queue"]; put_nowait
\* raises QueueFull on a full channel, which ends the loop (except Exception)
LoadItems(items, q, pq) ==
    IF items = <<>> THEN [queue |-> q, processing_queue |-> pq]
    ELSE LET item == from_dict(Head(items)) IN
         IF item.status \in {"queued", "processing"}
         THEN LET q2 == Put(q, item.queue_id, [item EXCEPT !.status = "queued"]) IN
              IF Len(pq) >= max_queue_size
              THEN [queue |-> q2, processing_queue |-> pq]
              ELSE LoadItems(Tail(items), q2, Append(pq, item.queue_id))
         ELSE LoadItems(Tail(items), Put(q, item.queue_id, item), pq)

\* QueueManager.__init__ + _initialize_state
InitializeState(file, resume) ==
    IF resume /\ file.exists
    THEN LoadItems(file.queue, EmptyMap, <<>>)
    ELSE [queue |-> EmptyMap, processing_queue |-> <<>>]

\* ------------------------------------------- state files found at a start
\* a Job as a run leaves it in the state file
FileJob(queue_id, status) ==
    [QueueItem(queue_id, "k1", QueuedPath) EXCEPT
        !.status = status,
        !.result = IF status = "completed" THEN ResultOf(queue_id) ELSE None,
        !.error = IF status = "failed" THEN ErrorResponse(API_ERROR) ELSE None]

\* the state files a run leaves behind: Jobs in submission order; the channel
\* is FIFO, so every Job still queued was submitted after every Job a worker
\* has picked up, and at most max_queue_size Jobs are queued; the Jobs in
\* processing are as many as the pool of that run had workers (the pool size
\* is a setting, config.max_threads, up to MaxFileLen here)
WrittenFiles ==
    UNION {{[exists |-> TRUE,
             queue |-> [i \in 1..n |-> to_dict(FileJob(i, st[i]))]] :
                st \in {s \in [1..n -> {"queued", "processing", "completed", "failed"}] :
                          /\ \A i, j \in 1..n : i < j /\ s[i] = "queued" => s[j] = "queued"
                          /\ Cardinality({i \in 1..n : s[i] = "queued"}) <= max_queue_size}} :
           n \in 0..MaxFileLen}

\* ------------------------------------------------------------------- Init
Init ==
    /\ queue = EmptyMap
    /\ processing_queue = <<>>
    /\ state_file = [exists |-> FALSE, queue |-> <<>>]
    /\ worker_pc = [w \in Workers |-> "get"]
    /\ worker_item = [w \in Workers |-> 0]
    /\ next_id = 1
    /\ restarts = 0
    /\ resume_on_startup = TRUE      \* the default; read only at a start
    /\ tools = EmptyMap
    /\ resource_queue_manager = FALSE
    /\ active_connections = <<>>
    /\ apis_dir = InitialDir
    /\ api_files_mtimes = InitialDir
    /\ executor_apis = apis
    /\ watcher_pc = "sleep"
    /\ checked = NoCheck
    /\ generated = NoSchema
    /\ executions = EmptyMap
    /\ adder_pc = "idle"
    /\ marshaled = NoMarshal
    /\ workers = WorkerList
    /\ stop_pc = "idle"
    /\ resp = NoResp

\* the server is started with resume enabled on a state file of an earlier run
InitResume ==
    /\ state_file \in WrittenFiles
    /\ resume_on_startup = TRUE
    /\ queue = InitializeState(state_file, TRUE).queue
    /\ processing_queue = InitializeState(state_file, TRUE).processing_queue
    /\ worker_pc = [w \in Workers |-> "get"]
    /\ worker_item = [w \in Workers |-> 0]
    /\ next_id = Len(state_file.queue) + 1
    /\ restarts = 0
    /\ tools = EmptyMap
    /\ resource_queue_manager = FALSE
    /\ active_connections = <<>>
    /\ apis_dir = InitialDir
    /\ api_files_mtimes = InitialDir
    /\ executor_apis = apis
    /\ watcher_pc = "sleep"
    /\ checked = NoCheck
    /\ generated = NoSchema
    /\ executions = EmptyMap
    /\ adder_pc = "idle"
    /\ marshaled = NoMarshal
    /\ workers = WorkerList
    /\ stop_pc = "idle"
    /\ resp = NoResp

\* ------------------------------------------------------------ QueueManager
\* variant of the depth check: off by one (> instead of >=)
QueueIsFull_OffByOne(pq) == Len(pq) > max_queue_size

\* the depth check of add_to_queue
QueueIsFull(pq) == Len(pq) >= max_queue_size

\* QueueManager.add_to_queue: what the call returns or raises
AddOutcome(pq, queue_id) ==
    IF QueueIsFull(pq)
    THEN [code |-> API_ERROR, body |-> ErrorResponse(API_ERROR)]
    ELSE [code |-> HTTP_OK, body |-> PendingMarker(queue_id)]

\* QueueManager.add_to_queue: what the call does to the queue manager.  The
\* channel is not full after the depth check, so `await put` does not suspend.
AddEffect(api_key, endpoint) ==
    IF QueueIsFull(processing_queue)
    THEN UNCHANGED <<queue, processing_queue, state_file, next_id>>
    ELSE /\ queue' = Put(queue, next_id, QueueItem(next_id, api_key, endpoint))
         /\ processing_queue' = Append(processing_queue, next_id)
         /\ state_file' = SavedState(queue')
         /\ next_id' = next_id + 1

\* QueueManager.add_to_queue(api_key, endpoint, data)
add_to_queue(api_key, endpoint) ==
    /\ next_id <= MaxJobs
    /\ AddEffect(api_key, endpoint)
    /\ resp' = [NoResp EXCEPT !.op = "add_to_queue", !.path = endpoint,
                              !.cred = api_key,
                              !.id = AddOutcome(processing_queue, next_id).body.id,
                              !.code = AddOutcome(processing_queue, next_id).code,
                              !.body = AddOutcome(processing_queue, next_id).body]
    /\ UNCHANGED <<worker_pc, worker_item, restarts, resume_on_startup, McpVars, LoaderVars>>

\* add_to_queue up to and including `await self.processing_queue.put`: the
\* depth check, the new item in the Job map, its id on the channel
add_put(api_key, endpoint) ==
    /\ adder_pc = "idle"
    /\ next_id <= MaxJobs
    /\ ~QueueIsFull(processing_queue)
    /\ queue' = Put(queue, next_id, QueueItem(next_id, api_key, endpoint))
    /\ processing_queue' = Append(processing_queue, next_id)
    /\ next_id' = next_id + 1
    /\ adder_pc' = "save"
    /\ resp' = NoResp
    /\ UNCHANGED <<state_file, worker_pc, worker_item, restarts, resume_on_startup,
                   McpVars, apis_dir, api_files_mtimes, executor_apis, watcher_pc,
                   checked, generated, executions, marshaled, workers, stop_pc>>

\* add_to_queue from `self._save_state()` to its return
add_save ==
    /\ adder_pc = "save"
    /\ state_file' = SavedState(queue)
    /\ adder_pc' = "idle"
    /\ resp' = [NoResp EXCEPT !.op = "add_to_queue",
                              !.path = queue[next_id - 1].endpoint,
                              !.cred = queue[next_id - 1].api_key,
                              !.id = next_id - 1,
                              !.code = HTTP_OK,
                              !.body = PendingMarker(next_id - 1)]
    /\ UNCHANGED <<queue, processing_queue, next_id, worker_pc, worker_item, restarts,
                   resume_on_startup, McpVars, apis_dir, api_files_mtimes,
                   executor_apis, watcher_pc, checked, generated, executions, marshaled, workers, stop_pc>>

\* variant of get_queue_status: the owner check is left out
QueueStatusOutcome_NoOwnerCheck(q, queue_id, api_key) ==
    IF queue_id \notin DOMAIN q
    THEN [code |-> NOT_FOUND, body |-> ErrorResponse(NOT_FOUND)]
    ELSE IF q[queue_id].status = "completed"
    THEN [code |-> HTTP_OK, body |-> q[queue_id].result]
    ELSE IF q[queue_id].status = "failed"
    THEN [code |-> HTTP_OK, body |-> q[queue_id].error]
    ELSE [code |-> HTTP_OK, body |-> PendingMarker(queue_id)]

\* variant of get_queue_status: the result field is returned as soon as a
\* worker has picked the Job up
QueueStatusOutcome_ResultWhileProcessing(q, queue_id, api_key) ==
    IF queue_id \notin DOMAIN q
    THEN [code |-> NOT_FOUND, body |-> ErrorResponse(NOT_FOUND)]
    ELSE IF q[queue_id].api_key # api_key
    THEN [code |-> UNAUTHORIZED, body |-> ErrorResponse(UNAUTHORIZED)]
    ELSE IF q[queue_id].status \in {"processing", "completed"}
    THEN [code |-> HTTP_OK, body |-> q[queue_id].result]
    ELSE IF q[queue_id].status = "failed"
    THEN [code |-> HTTP_OK, body |-> q[queue_id].error]
    ELSE [code |-> HTTP_OK, body |-> PendingMarker(queue_id)]

\* QueueManager.get_queue_status: the outcome for a Job map, an id and a key
QueueStatusOutcome(q, queue_id, api_key) ==
    IF queue_id \notin DOMAIN q
    THEN [code |-> NOT_FOUND, body |-> ErrorResponse(NOT_FOUND)]
    ELSE IF q[queue_id].api_key # api_key
    THEN [code |-> UNAUTHORIZED, body |-> ErrorResponse(UNAUTHORIZED)]
    ELSE IF q[queue_id].status = "completed"
    THEN [code |-> HTTP_OK, body |-> q[queue_id].result]
    ELSE IF q[queue_id].status = "failed"
    THEN [code |-> HTTP_OK, body |-> q[queue_id].error]
    ELSE [code |-> HTTP_OK, body |-> PendingMarker(queue_id)]

\* variant of get_queue_status: a finished Job is dropped from the Job map
\* once its owner has read it
get_queue_status_Evict(queue_id, api_key) ==
    /\ resp' = [NoResp EXCEPT !.op = "get_queue_status", !.cred = api_key,
                              !.id = queue_id,
                              !.code = QueueStatusOutcome(queue, queue_id, api_key).code,
                              !.body = QueueStatusOutcome(queue, queue_id, api_key).body]
    /\ queue' = IF /\ queue_id \in DOMAIN queue
                   /\ queue[queue_id].api_key = api_key
                   /\ queue[queue_id].status \in {"completed", "failed"}
                THEN [x \in DOMAIN queue \ {queue_id} |-> queue[x]]
                ELSE queue
    /\ UNCHANGED <<processing_queue, state_file, worker_pc, worker_item,
                   next_id, restarts, resume_on_startup, McpVars, LoaderVars>>

\* QueueManager.get_queue_status(queue_id, api_key)
get_queue_status(queue_id, api_key) ==
    /\ resp' = [NoResp EXCEPT !.op = "get_queue_status", !.cred = api_key,
                              !.id = queue_id,
                              !.code = QueueStatusOutcome(queue, queue_id, api_key).code,
                              !.body = QueueStatusOutcome(queue, queue_id, api_key).body]
    /\ UNCHANGED <<queue, processing_queue, state_file, worker_pc, worker_item,
                   next_id, restarts, resume_on_startup, McpVars, LoaderVars>>

\* variant of the worker: the id that entered the channel last is taken
WorkerGet_Lifo(w) ==
    /\ worker_pc[w] = "get"
    /\ processing_queue # <<>>
    /\ LET queue_id == processing_queue[Len(processing_queue)] IN
       /\ processing_queue' = SubSeq(processing_queue, 1, Len(processing_queue) - 1)
       /\ IF queue_id \notin DOMAIN queue
          THEN UNCHANGED <<queue, state_file, worker_pc, worker_item>>
          ELSE /\ queue' = [queue EXCEPT ![queue_id].status = "processing"]
               /\ state_file' = SavedState(queue')
               /\ worker_pc' = [worker_pc EXCEPT ![w] = "exec"]
               /\ worker_item' = [worker_item EXCEPT ![w] = queue_id]
    /\ resp' = NoResp
    /\ UNCHANGED <<next_id, restarts, resume_on_startup, McpVars, LoaderVars>>

\* variant of the worker: the id is read from the channel and left there
WorkerGet_Peek(w) ==
    /\ worker_pc[w] = "get"
    /\ processing_queue # <<>>
    /\ LET queue_id == Head(processing_queue) IN
       /\ queue_id \in DOMAIN queue
       /\ queue' = [queue EXCEPT ![queue_id].status = "processing"]
       /\ state_file' = SavedState(queue')
       /\ worker_pc' = [worker_pc EXCEPT ![w] = "exec"]
       /\ worker_item' = [worker_item EXCEPT ![w] = queue_id]
    /\ resp' = NoResp
    /\ UNCHANGED <<processing_queue, next_id, restarts, resume_on_startup, McpVars,
                   LoaderVars>>

\* variant of the worker: the Job is marked processing and the worker goes
\* back to the channel without waiting for the handler
WorkerGet_Detached(w) ==
    /\ worker_pc[w] = "get"
    /\ processing_queue # <<>>
    /\ LET queue_id == Head(processing_queue) IN
       /\ processing_queue' = Tail(processing_queue)
       /\ IF queue_id \notin DOMAIN queue
          THEN UNCHANGED <<queue, state_file>>
          ELSE /\ queue' = [queue EXCEPT ![queue_id].status = "processing"]
               /\ state_file' = SavedState(queue')
    /\ resp' = NoResp
    /\ UNCHANGED <<worker_pc, worker_item, next_id, restarts, resume_on_startup,
                   McpVars, LoaderVars>>

\* _worker_task, first half: get an id, mark the Job processing, save
WorkerGet(w) ==
    /\ worker_pc[w] = "get"
    /\ processing_queue # <<>>
    /\ LET queue_id == Head(processing_queue) IN
       /\ processing_queue' = Tail(processing_queue)
       /\ IF queue_id \notin DOMAIN queue
          THEN UNCHANGED <<queue, state_file, worker_pc, worker_item>>
          ELSE /\ queue' = [queue EXCEPT ![queue_id].status = "processing"]
               /\ state_file' = SavedState(queue')
               /\ worker_pc' = [worker_pc EXCEPT ![w] = "exec"]
               /\ worker_item' = [worker_item EXCEPT ![w] = queue_id]
    /\ resp' = NoResp
    /\ UNCHANGED <<next_id, restarts, resume_on_startup, McpVars, LoaderVars>>

\* the names of the fields INPUT_TYPES()["required"] lists
RequiredFields(cls) == {f.name : f \in {g \in cls.inputs : g.section = "required"}}

\* variant of execute_api: the presence of the required fields is not checked
execute_api_NoRequiredCheck(table, api_path, data, queue_id, handler_raises) ==
    IF api_path \notin DOMAIN table
    THEN [ok |-> FALSE, value |-> ErrorResponse(NOT_FOUND), invoked |-> FALSE]
    ELSE IF handler_raises \/ ~(RequiredFields(table[api_path].class) \subseteq data)
    THEN [ok |-> FALSE, value |-> ErrorResponse(API_ERROR), invoked |-> TRUE]
    ELSE [ok |-> TRUE, value |-> ResultOf(queue_id), invoked |-> TRUE]

\* APIExecutor.execute_api(api_path, data): look the path up, check the
\* required fields (_prepare_arguments), call the entry method; `data` is the
\* set of field names the caller sent, `queue_id` tells results apart
execute_api(table, api_path, data, queue_id, handler_raises) ==
    IF api_path \notin DOMAIN table
    THEN [ok |-> FALSE, value |-> ErrorResponse(NOT_FOUND), invoked |-> FALSE]
    ELSE IF ~(RequiredFields(table[api_path].class) \subseteq data)
    THEN [ok |-> FALSE, value |-> ErrorResponse(INVALID_INPUT), invoked |-> FALSE]
    ELSE IF handler_raises
    THEN [ok |-> FALSE, value |-> ErrorResponse(API_ERROR), invoked |-> TRUE]
    ELSE [ok |-> TRUE, value |-> ResultOf(queue_id), invoked |-> TRUE]

\* APIExecutor.execute_api as the worker and the routes of the model call
\* it, with every field present: the handler returns a result (a tuple or a
\* dict, per the plugin contract) or the call raises
ExecuteOutcome(table, endpoint, queue_id, handler_raises) ==
    [ok |-> execute_api(table, endpoint, FieldNames, queue_id, handler_raises).ok,
     value |-> execute_api(table, endpoint, FieldNames, queue_id, handler_raises).value]

\* the number of times a worker of this run has called execute_api for a Job
Executed(queue_id) ==
    IF queue_id \in DOMAIN executions THEN executions[queue_id] ELSE 0

\* variant of the worker's bookkeeping: a failed Job is put back to queued
Finished_Requeue(item, out) ==
    IF out.ok
    THEN [item EXCEPT !.status = "completed", !.result = out.value]
    ELSE [item EXCEPT !.status = "queued", !.error = out.value]

\* variant of the worker's bookkeeping: the error of a failed Job is not stored
Finished_NoError(item, out) ==
    IF out.ok
    THEN [item EXCEPT !.status = "completed", !.result = out.value]
    ELSE [item EXCEPT !.status = "failed"]

\* the item as the worker leaves it after execute_api returned or raised
Finished(item, out) ==
    IF out.ok
    THEN [item EXCEPT !.status = "completed", !.result = out.value]
    ELSE [item EXCEPT !.status = "failed", !.error = out.value]

\* variant of the worker: the handler is looked up in the table loaded at
\* startup, not in the live table of the executor
WorkerFinish_StartupTable(w, handler_raises) ==
    /\ worker_pc[w] = "exec"
    /\ LET queue_id == worker_item[w]
           item == queue[queue_id]
           out == ExecuteOutcome(apis, item.endpoint, queue_id, handler_raises)
       IN /\ queue' = [queue EXCEPT ![queue_id] = Finished(item, out)]
          /\ state_file' = SavedState(queue')
    /\ worker_pc' = [worker_pc EXCEPT ![w] = "get"]
    /\ worker_item' = [worker_item EXCEPT ![w] = 0]
    /\ executions' = Put(executions, worker_item[w], Executed(worker_item[w]) + 1)
    /\ resp' = NoResp
    /\ UNCHANGED <<processing_queue, next_id, restarts, resume_on_startup, McpVars,
                   apis_dir, api_files_mtimes, executor_apis, watcher_pc, checked,
                   generated, adder_pc, marshaled, workers, stop_pc>>

\* variant of the worker: the write of the file interleaves with the update
\* of the Job, the entry written has the new result under the old status
WorkerFinish_TornSave(w, handler_raises) ==
    /\ worker_pc[w] = "exec"
    /\ LET queue_id == worker_item[w]
           item == queue[queue_id]
           out == ExecuteOutcome(executor_apis, item.endpoint, queue_id, handler_raises)
       IN /\ queue' = [queue EXCEPT ![queue_id] = Finished(item, out)]
          /\ state_file' =
                 [exists |-> TRUE,
                  queue |-> [i \in DOMAIN SavedState(queue').queue |->
                                IF SavedState(queue').queue[i].queue_id = queue_id
                                THEN [SavedState(queue').queue[i]
                                         EXCEPT !.status = item.status]
                                ELSE SavedState(queue').queue[i]]]
    /\ worker_pc' = [worker_pc EXCEPT ![w] = "get"]
    /\ worker_item' = [worker_item EXCEPT ![w] = 0]
    /\ executions' = Put(executions, worker_item[w], Executed(worker_item[w]) + 1)
    /\ resp' = NoResp
    /\ UNCHANGED <<processing_queue, next_id, restarts, resume_on_startup, McpVars,
                   apis_dir, api_files_mtimes, executor_apis, watcher_pc, checked,
                   generated, adder_pc, marshaled, workers, stop_pc>>

\* variant of the worker: an exception of the handler is not caught, the
\* worker task ends and the Job stays as it was
WorkerFinish_Dies(w, handler_raises) ==
    /\ worker_pc[w] = "exec"
    /\ LET queue_id == worker_item[w]
           item == queue[queue_id]
           out == ExecuteOutcome(executor_apis, item.endpoint, queue_id, handler_raises)
       IN /\ queue' = IF out.ok THEN [queue EXCEPT ![queue_id] = Finished(item, out)]
                      ELSE queue
          /\ state_file' = SavedState(queue')
          /\ worker_pc' = [worker_pc EXCEPT ![w] = IF out.ok THEN "get" ELSE "dead"]
    /\ worker_item' = [worker_item EXCEPT ![w] = 0]
    /\ executions' = Put(executions, worker_item[w], Executed(worker_item[w]) + 1)
    /\ resp' = NoResp
    /\ UNCHANGED <<processing_queue, next_id, restarts, resume_on_startup, McpVars,
                   apis_dir, api_files_mtimes, executor_apis, watcher_pc, checked,
                   generated, adder_pc, marshaled, workers, stop_pc>>

\* _worker_task, second half: store the outcome, save, task_done
WorkerFinish(w, handler_raises) ==
    /\ worker_pc[w] = "exec"
    /\ LET queue_id == worker_item[w]
           item == queue[queue_id]
           out == ExecuteOutcome(executor_apis, item.endpoint, queue_id, handler_raises)
       IN /\ queue' = [queue EXCEPT ![queue_id] = Finished(item, out)]
          /\ state_file' = SavedState(queue')
    /\ worker_pc' = [worker_pc EXCEPT ![w] = "get"]
    /\ worker_item' = [worker_item EXCEPT ![w] = 0]
    /\ executions' = Put(executions, worker_item[w], Executed(worker_item[w]) + 1)
    /\ resp' = NoResp
    /\ UNCHANGED <<processing_queue, next_id, restarts, resume_on_startup, McpVars,
                   apis_dir, api_files_mtimes, executor_apis, watcher_pc, checked,
                   generated, adder_pc, marshaled, workers, stop_pc>>

\* The process dies (at a suspension point) and is started again:
\* QueueManager.__init__ reads the state file, start_workers starts the pool
Restart(resume) ==
    /\ restarts < MaxRestarts
    /\ restarts' = restarts + 1
    /\ resume_on_startup' = resume
    /\ queue' = InitializeState(state_file, resume).queue
    /\ processing_queue' = InitializeState(state_file, resume).processing_queue
    /\ worker_pc' = [w \in Workers |-> "get"]
    /\ worker_item' = [w \in Workers |-> 0]
    /\ resp' = NoResp
    /\ tools' = EmptyMap
    /\ resource_queue_manager' = FALSE
    /\ executor_apis' = load_apis(apis_dir)
    /\ api_files_mtimes' = apis_dir
    /\ watcher_pc' = "sleep"
    /\ executions' = EmptyMap
    /\ adder_pc' = "idle"
    /\ workers' = WorkerList
    /\ stop_pc' = "idle"
    /\ UNCHANGED <<state_file, next_id, active_connections, apis_dir, checked, generated,
                   marshaled>>

\* ------------------------------------------------------ REST (routes.py)
\* str.startswith
StartsWith(s, prefix) ==
    Len(prefix) <= Len(s) /\ SubSeq(s, 1, Len(prefix)) = prefix

ApiUrl(api_path) == ApiPrefix \o api_path
StatusUrl(api_path) == ApiPrefix \o api_path \o QueueSuffix
ApiUrls == {ApiUrl(p) : p \in DOMAIN apis} \cup {StatusUrl(p) : p \in QueuedPaths}
SchemaUrls == {OpenapiAllUrl, OpenapiModuleUrl, BuiltinOpenapiUrl}

\* variant of the middleware: every path is let through unauthenticated
authenticate_request_Open(path, cred) == [pass |-> TRUE, code |-> 0]

\* SecurityManager.authenticate_request (the "http" middleware): the code a
\* request is answered with when it is stopped, or pass
authenticate_request(path, cred) ==
    IF \E prefix \in ExemptPrefixes : StartsWith(path, prefix)
    THEN [pass |-> TRUE, code |-> 0]
    ELSE IF cred = NoCredential
    THEN [pass |-> FALSE, code |-> UNAUTHORIZED]
    ELSE IF cred \notin api_keys
    THEN [pass |-> FALSE, code |-> UNAUTHORIZED]
    ELSE [pass |-> TRUE, code |-> 0]

\* Depends(HTTPBearer()) and SecurityManager.get_api_key_from_request in a
\* route: HTTPBearer answers a missing header itself, an unknown key is an
\* APIError(UNAUTHORIZED) turned into an HTTPException
RouteAuth(cred) ==
    IF cred = NoCredential THEN [pass |-> FALSE, code |-> HTTP_FORBIDDEN]
    ELSE IF cred \notin api_keys THEN [pass |-> FALSE, code |-> UNAUTHORIZED]
    ELSE [pass |-> TRUE, code |-> 0]

\* the gate a request to an /api route goes through: middleware, then route
ApiGate(url, cred) ==
    IF ~authenticate_request(url, cred).pass THEN authenticate_request(url, cred)
    ELSE RouteAuth(cred)

Rejected(url, cred, code) ==
    [NoResp EXCEPT !.op = "rest", !.path = url, !.cred = cred, !.code = code,
                   !.body = ErrorResponse(code)]

QueueVars == <<queue, processing_queue, state_file, next_id>>

\* RouteGenerator._add_direct_route: POST /api/{api_path}
direct_route(api_path, cred, handler_raises) ==
    /\ api_path \in DirectPaths
    /\ LET url == ApiUrl(api_path)
           out == ExecuteOutcome(executor_apis, api_path, 0, handler_raises)
       IN resp' = IF ~ApiGate(url, cred).pass
                  THEN Rejected(url, cred, ApiGate(url, cred).code)
                  ELSE [NoResp EXCEPT !.op = "rest", !.path = url, !.cred = cred,
                                      !.invoked = TRUE,
                                      !.code = IF out.ok THEN HTTP_OK ELSE out.value.code,
                                      !.body = out.value]
    /\ UNCHANGED <<QueueVars, worker_pc, worker_item, restarts, resume_on_startup, McpVars, LoaderVars>>

\* RouteGenerator._add_queue_route: POST /api/{api_path}
queue_route(api_path, cred) ==
    /\ api_path \in QueuedPaths
    /\ next_id <= MaxJobs
    /\ LET url == ApiUrl(api_path) IN
       IF ~ApiGate(url, cred).pass
       THEN /\ resp' = Rejected(url, cred, ApiGate(url, cred).code)
            /\ UNCHANGED QueueVars
       ELSE /\ AddEffect(cred, api_path)
            /\ resp' = [NoResp EXCEPT !.op = "rest", !.path = url, !.cred = cred,
                                      !.id = AddOutcome(processing_queue, next_id).body.id,
                                      !.code = AddOutcome(processing_queue, next_id).code,
                                      !.body = AddOutcome(processing_queue, next_id).body]
    /\ UNCHANGED <<worker_pc, worker_item, restarts, resume_on_startup, McpVars, LoaderVars>>

\* RouteGenerator._add_queue_status_route: POST /api/{api_path}/queue; a body
\* without "queue_id" is queue_id = -1 here
queue_status_route(api_path, cred, queue_id) ==
    /\ api_path \in QueuedPaths
    /\ LET url == StatusUrl(api_path)
           out == QueueStatusOutcome(queue, queue_id, cred)
       IN resp' = IF ~ApiGate(url, cred).pass
                  THEN Rejected(url, cred, ApiGate(url, cred).code)
                  ELSE IF queue_id = -1
                  THEN Rejected(url, cred, INVALID_INPUT)
                  ELSE [NoResp EXCEPT !.op = "rest", !.path = url, !.cred = cred,
                                      !.id = queue_id, !.code = out.code,
                                      !.body = out.body]
    /\ UNCHANGED <<QueueVars, worker_pc, worker_item, restarts, resume_on_startup, McpVars, LoaderVars>>

\* get_module_openapi, get_general_openapi and FastAPI's /openapi.json: no
\* credential is asked for by the route itself
schema_route(url, cred) ==
    /\ url \in SchemaUrls
    /\ resp' = IF ~authenticate_request(url, cred).pass
               THEN Rejected(url, cred, authenticate_request(url, cred).code)
               ELSE [NoResp EXCEPT !.op = "rest", !.path = url, !.cred = cred,
                                   !.code = HTTP_OK, !.body = SchemaDocument]
    /\ UNCHANGED <<QueueVars, worker_pc, worker_item, restarts, resume_on_startup, McpVars, LoaderVars>>

RestNext ==
    \/ \E p \in DOMAIN apis, c \in Credentials, r \in BOOLEAN : direct_route(p, c, r)
    \/ \E p \in DOMAIN apis, c \in Credentials : queue_route(p, c)
    \/ \E p \in DOMAIN apis, c \in Credentials, id \in -1..MaxJobs :
            queue_status_route(p, c, id)
    \/ \E u \in SchemaUrls, c \in Credentials : schema_route(u, c)
    \/ \E w \in Workers : WorkerGet(w)
    \/ \E w \in Workers, r \in BOOLEAN : WorkerFinish(w, r)

\* ------------------------------------------- MCP registries (mcp/*.py)
RECURSIVE Replace(_, _, _)
\* str.replace(old, new) for one-character old and new
Replace(s, old, new) ==
    IF s = <<>> THEN <<>>
    ELSE <<IF Head(s) = old THEN new ELSE Head(s)>> \o Replace(Tail(s), old, new)

RECURSIVE Find(_, _, _)
\* the first index >= i at which sub occurs in s, or 0
Find(s, sub, i) ==
    IF i + Len(sub) - 1 > Len(s) THEN 0
    ELSE IF SubSeq(s, i, i + Len(sub) - 1) = sub THEN i
    ELSE Find(s, sub, i + 1)

\* uri.split("://")[1]: the text between the first and the second "://"
SplitSecond(uri) ==
    LET i == Find(uri, SchemeSep, 1)
        rest == SubSeq(uri, i + Len(SchemeSep), Len(uri))
        j == Find(rest, SchemeSep, 1)
    IN IF j = 0 THEN rest ELSE SubSeq(rest, 1, j - 1)

\* ToolRegistry._api_path_to_tool_name
ToolName(api_path) == Replace(api_path, "/", "_")

\* ToolRegistry._map_apis_to_tools
MappedTools(table) ==
    [n \in {ToolName(p) : p \in DOMAIN table} |->
        CHOOSE p \in DOMAIN table : ToolName(p) = n]

\* MCPServer.setup_registries / ToolRegistry.setup / ResourceRegistry.setup
setup_registries ==
    /\ ~resource_queue_manager
    /\ tools' = MappedTools(apis)
    /\ resource_queue_manager' = TRUE
    /\ resp' = NoResp
    /\ UNCHANGED <<QueueVars, worker_pc, worker_item, restarts, resume_on_startup,
                   active_connections, LoaderVars>>

TextContent == [kind |-> "text", code |-> 0, id |-> 0]

\* the JSON text _read_queue_resource builds from a QueueItem: its status
\* with the result, the error or the queue_id
JobContent(item) ==
    [kind |-> item.status,
     code |-> IF item.status = "completed" THEN item.result.code
              ELSE IF item.status = "failed" THEN item.error.code ELSE 0,
     id |-> item.queue_id]

\* the key of the Job map a queue_id string names, or 0
JobOfString(q, str) ==
    IF \E id \in DOMAIN q : IdString(id) = str
    THEN CHOOSE id \in DOMAIN q : IdString(id) = str
    ELSE 0

\* ResourceRegistry._read_queue_resource(uri): no credential is looked at
ReadQueueResource(q, ready, uri) ==
    IF ~ready THEN TextContent
    ELSE IF JobOfString(q, SplitSecond(uri)) = 0 THEN TextContent
    ELSE JobContent(q[JobOfString(q, SplitSecond(uri))])

\* ResourceRegistry.read_resource(uri)
ReadResource(q, ready, uri) ==
    IF StartsWith(uri, QueueScheme) THEN ReadQueueResource(q, ready, uri)
    ELSE TextContent

\* an MCP client that presented `cred` reads a resource
read_resource(cred, uri) ==
    /\ resp' = [NoResp EXCEPT !.op = "read_resource", !.path = uri, !.cred = cred,
                              !.id = ReadResource(queue, resource_queue_manager, uri).id,
                              !.code = HTTP_OK,
                              !.body = ReadResource(queue, resource_queue_manager, uri)]
    /\ UNCHANGED <<QueueVars, worker_pc, worker_item, restarts, resume_on_startup,
                   McpVars, LoaderVars>>

\* ToolRegistry.execute_tool(tool_name, arguments) for a client that
\* presented `cred`: an API-mapped tool goes straight to execute_api
execute_tool(cred, tool_name, handler_raises) ==
    /\ resp' = IF tool_name \notin DOMAIN tools
               THEN [NoResp EXCEPT !.op = "execute_tool", !.path = tool_name,
                                   !.cred = cred, !.code = NOT_FOUND,
                                   !.body = TextContent]
               ELSE LET out == ExecuteOutcome(executor_apis, tools[tool_name], 0, handler_raises)
                    IN [NoResp EXCEPT !.op = "execute_tool", !.path = tool_name,
                                      !.cred = cred, !.invoked = TRUE,
                                      !.code = IF out.ok THEN HTTP_OK ELSE out.value.code,
                                      !.body = IF out.ok THEN out.value ELSE TextContent]
    /\ UNCHANGED <<QueueVars, worker_pc, worker_item, restarts, resume_on_startup,
                   McpVars, LoaderVars>>

ResourceUris == {QueueUri(id) : id \in 0..MaxJobs} \cup {DocsReadme, UnknownUri}
ToolNames == {ToolName(p) : p \in DOMAIN apis} \cup {DirectPath}

McpNext ==
    \/ setup_registries
    \/ \E c \in Credentials, u \in ResourceUris : read_resource(c, u)
    \/ \E c \in Credentials, n \in ToolNames, r \in BOOLEAN : execute_tool(c, n, r)
    \/ \E k \in api_keys : add_to_queue(k, QueuedPath)
    \/ \E w \in Workers : WorkerGet(w)
    \/ \E w \in Workers, r \in BOOLEAN : WorkerFinish(w, r)

\* the MCP registries over the queue manager and its worker pool
McpSpec == Init /\ [][McpNext]_vars

\* ------------------------------------------ main.py: the /mcp WebSocket
McpReply(op, cred, arg, kind, invoked) ==
    [NoResp EXCEPT !.op = op, !.cred = cred, !.path = arg, !.invoked = invoked,
                   !.body = [kind |-> kind, code |-> 0, id |-> 0]]

\* list.remove(websocket)
Without(seq, c) == SelectSeq(seq, LAMBDA x : x # c)

MainVarsUnchanged ==
    UNCHANGED <<QueueVars, worker_pc, worker_item, restarts, resume_on_startup,
                tools, resource_queue_manager, LoaderVars>>

\* mcp_endpoint up to the receive loop: accept, register, send server_info.
\* No header of the handshake is read.
mcp_connect(cred) ==
    /\ cred \notin Range(active_connections)
    /\ active_connections' = Append(active_connections, cred)
    /\ resp' = McpReply("mcp_connect", cred, Missing, "server_info", FALSE)
    /\ MainVarsUnchanged

\* the client closes the socket: WebSocketDisconnect
mcp_disconnect(cred) ==
    /\ cred \in Range(active_connections)
    /\ active_connections' = Without(active_connections, cred)
    /\ resp' = NoResp
    /\ MainVarsUnchanged

\* the call_tool_request branch of mcp_endpoint: the reply, or "dropped"
\* when the branch raises (None.replace) and the handler leaves the loop
CallToolReply(cred, name) ==
    IF name = Missing
    THEN McpReply("mcp_call_tool", cred, name, "dropped", FALSE)
    ELSE IF Replace(name, "_", "/") \notin DOMAIN api_registry
    THEN McpReply("mcp_call_tool", cred, name, "error:tool_not_found", FALSE)
    ELSE McpReply("mcp_call_tool", cred, name, "call_tool_response",
                  ~api_registry[Replace(name, "_", "/")].queue_mode)

\* the read_resource_request branch of mcp_endpoint
ReadResourceReply(cred, uri) ==
    IF uri = Missing
    THEN McpReply("mcp_read_resource", cred, uri, "dropped", FALSE)
    ELSE IF uri = DocsReadme \/ StartsWith(uri, QueueScheme)
    THEN McpReply("mcp_read_resource", cred, uri, "read_resource_response", FALSE)
    ELSE McpReply("mcp_read_resource", cred, uri, "error:resource_not_found", FALSE)

\* the other branches of mcp_endpoint
OtherReply(cred, type) ==
    IF type \in {"capabilities", "list_tools", "list_resources",
                 "list_resource_templates"}
    THEN McpReply("mcp_other", cred, Missing, type, FALSE)
    ELSE IF type = "invalid_json"
    THEN McpReply("mcp_other", cred, Missing, "dropped", FALSE)
    ELSE McpReply("mcp_other", cred, Missing, "error:unknown_message_type", FALSE)

\* one iteration of the receive loop of mcp_endpoint for a message of
\* client `cred`; an exception removes the connection (except Exception)
mcp_message(cred, reply) ==
    /\ cred \in Range(active_connections)
    /\ resp' = reply
    /\ active_connections' = IF reply.body.kind = "dropped"
                             THEN Without(active_connections, cred)
                             ELSE active_connections
    /\ MainVarsUnchanged

MainToolNames ==
    {Replace(p, "/", "_") : p \in DOMAIN api_registry}
        \cup {TextAnalyzerPath, Missing}
MainUris == {DocsReadme, QueueUri(1), UnknownUri, Missing}
OtherTypes == {"capabilities", "list_tools", "list_resources",
               "list_resource_templates", "invalid_json", "unknown"}

MainNext ==
    \/ \E c \in Credentials : mcp_connect(c)
    \/ \E c \in Credentials : mcp_disconnect(c)
    \/ \E c \in Credentials, n \in MainToolNames : mcp_message(c, CallToolReply(c, n))
    \/ \E c \in Credentials, u \in MainUris : mcp_message(c, ReadResourceReply(c, u))
    \/ \E c \in Credentials, t \in OtherTypes : mcp_message(c, OtherReply(c, t))

\* ------------------------------------------- the checker on its own
\* APILoader.load_apis hands a class to the checker (loader.py line 75)
check_class(cls) ==
    /\ checked' = [cls |-> cls,
                   verdict |-> [status |-> check_node_compatibility(cls).status,
                                reason |-> check_node_compatibility(cls).reason]]
    /\ resp' = NoResp
    /\ UNCHANGED <<QueueVars, worker_pc, worker_item, restarts, resume_on_startup,
                   McpVars, apis_dir, api_files_mtimes, executor_apis, watcher_pc,
                   generated, executions, adder_pc, marshaled, workers, stop_pc>>

CompatNext == \E cls \in HandlerClasses : check_class(cls)

\* the compatibility checker applied to every handler class of the model
CompatSpec == Init /\ [][CompatNext]_vars

\* ------------------------------------------- the schema generators
\* generate_schema and _map_apis_to_tools come to the descriptor of `cls`
generate_schemas(cls) ==
    /\ generated' = [cls |-> [inputs |-> cls.inputs,
                              input_types_callable |-> cls.input_types_callable],
                     request_schema |-> generate_request_schema(cls),
                     input_schema |-> get_input_schema(cls),
                     done |-> TRUE]
    /\ resp' = NoResp
    /\ UNCHANGED <<QueueVars, worker_pc, worker_item, restarts, resume_on_startup,
                   McpVars, apis_dir, api_files_mtimes, executor_apis, watcher_pc,
                   checked, executions, adder_pc, marshaled, workers, stop_pc>>

SchemaNext ==
    \E cls \in {c \in SchemaClasses :
                    check_node_compatibility(c).status = FULLY_COMPATIBLE} :
        generate_schemas(cls)

\* the schema generators applied to the descriptors of compatible classes
SchemaSpec == Init /\ [][SchemaNext]_vars

\* ------------------------------------------- a start on an earlier state file
ResumeNext ==
    \/ \E queue_id \in 1..MaxFileLen, api_key \in api_keys :
            get_queue_status(queue_id, api_key)
    \/ \E w \in Workers : WorkerGet(w)
    \/ \E w \in Workers, handler_raises \in BOOLEAN : WorkerFinish(w, handler_raises)

\* the run after a start with resume enabled
ResumeSpec == InitResume /\ [][ResumeNext]_vars

\* ------------------------------------------- writes of the state file fail
\* _save_state catches every exception of open/json.dump and logs it: the
\* handler that called it goes on as after a write, the file stays as it was

\* add_to_queue, accepted, with the write failing
add_to_queue_unsaved(api_key, endpoint) ==
    /\ next_id <= MaxJobs
    /\ ~QueueIsFull(processing_queue)
    /\ queue' = Put(queue, next_id, QueueItem(next_id, api_key, endpoint))
    /\ processing_queue' = Append(processing_queue, next_id)
    /\ next_id' = next_id + 1
    /\ resp' = [NoResp EXCEPT !.op = "add_to_queue", !.path = endpoint,
                              !.cred = api_key, !.id = next_id,
                              !.code = HTTP_OK, !.body = PendingMarker(next_id)]
    /\ UNCHANGED <<state_file, worker_pc, worker_item, restarts, resume_on_startup,
                   McpVars, LoaderVars>>

\* _worker_task, first half, with the write failing
WorkerGet_unsaved(w) ==
    /\ worker_pc[w] = "get"
    /\ processing_queue # <<>>
    /\ LET queue_id == Head(processing_queue) IN
       /\ queue_id \in DOMAIN queue
       /\ processing_queue' = Tail(processing_queue)
       /\ queue' = [queue EXCEPT ![queue_id].status = "processing"]
       /\ worker_pc' = [worker_pc EXCEPT ![w] = "exec"]
       /\ worker_item' = [worker_item EXCEPT ![w] = queue_id]
    /\ resp' = NoResp
    /\ UNCHANGED <<state_file, next_id, restarts, resume_on_startup, McpVars, LoaderVars>>

\* variant of the worker: the exception of a failed write is not caught by
\* _save_state and ends the worker task
WorkerFinish_WriteFatal(w, handler_raises) ==
    /\ worker_pc[w] = "exec"
    /\ LET queue_id == worker_item[w]
           item == queue[queue_id]
           out == ExecuteOutcome(executor_apis, item.endpoint, queue_id, handler_raises)
       IN queue' = [queue EXCEPT ![queue_id] = Finished(item, out)]
    /\ worker_pc' = [worker_pc EXCEPT ![w] = "dead"]
    /\ worker_item' = [worker_item EXCEPT ![w] = 0]
    /\ executions' = Put(executions, worker_item[w], Executed(worker_item[w]) + 1)
    /\ resp' = NoResp
    /\ UNCHANGED <<state_file, processing_queue, next_id, restarts, resume_on_startup,
                   McpVars, apis_dir, api_files_mtimes, executor_apis, watcher_pc,
                   checked, generated, adder_pc, marshaled, workers, stop_pc>>

\* _worker_task, second half, with the write failing
WorkerFinish_unsaved(w, handler_raises) ==
    /\ worker_pc[w] = "exec"
    /\ LET queue_id == worker_item[w]
           item == queue[queue_id]
           out == ExecuteOutcome(executor_apis, item.endpoint, queue_id, handler_raises)
       IN queue' = [queue EXCEPT ![queue_id] = Finished(item, out)]
    /\ worker_pc' = [worker_pc EXCEPT ![w] = "get"]
    /\ worker_item' = [worker_item EXCEPT ![w] = 0]
    /\ executions' = Put(executions, worker_item[w], Executed(worker_item[w]) + 1)
    /\ resp' = NoResp
    /\ UNCHANGED <<state_file, processing_queue, next_id, restarts, resume_on_startup,
                   McpVars, apis_dir, api_files_mtimes, executor_apis, watcher_pc,
                   checked, generated, adder_pc, marshaled, workers, stop_pc>>

\* submissions and workers, each write succeeding or failing
WriteNext ==
    \/ \E api_key \in api_keys : add_to_queue(api_key, QueuedPath)
    \/ \E api_key \in api_keys : add_to_queue_unsaved(api_key, QueuedPath)
    \/ \E w \in Workers : WorkerGet(w)
    \/ \E w \in Workers : WorkerGet_unsaved(w)
    \/ \E w \in Workers, handler_raises \in BOOLEAN : WorkerFinish(w, handler_raises)
    \/ \E w \in Workers, handler_raises \in BOOLEAN : WorkerFinish_unsaved(w, handler_raises)

WriteSpec == Init /\ [][WriteNext]_vars

\* ------------------------------------------- the process may die anywhere
\* add_to_queue statement by statement; there is no suspension between the
\* put and the save, so the workers run only when add_to_queue is not
\* between them, while the process can be killed at any statement
CrashNext ==
    \/ \E api_key \in api_keys : add_put(api_key, QueuedPath)
    \/ add_save
    \/ adder_pc = "idle" /\ \E w \in Workers : WorkerGet(w)
    \/ adder_pc = "idle" /\ \E w \in Workers, handler_raises \in BOOLEAN :
                                WorkerFinish(w, handler_raises)
    \/ \E resume \in BOOLEAN : Restart(resume)

CrashSpec == Init /\ [][CrashNext]_vars

\* ----------------------------------- hot reload (app.py api_watcher)
\* the classes a plugin file of the model may export
PluginChoices == {GoodClass, BadOutputClass, BareInputClass, NoPlugin}

\* a plugin file is written, replaced or removed (the environment)
edit_plugins(api_path, cls) ==
    /\ api_path \in DOMAIN apis_dir
    /\ apis_dir[api_path].class # cls
    /\ apis_dir' = [apis_dir EXCEPT ![api_path].class = cls]
    /\ resp' = NoResp
    /\ UNCHANGED <<QueueVars, worker_pc, worker_item, restarts, resume_on_startup,
                   McpVars, api_files_mtimes, executor_apis, watcher_pc, checked, generated, executions, adder_pc, marshaled, workers, stop_pc>>

\* APILoader.check_for_changes
check_for_changes == apis_dir # api_files_mtimes

\* api_watcher wakes up, sees a change and enters load_apis, which suspends
\* in _install_requirements
watcher_check ==
    /\ watcher_pc = "sleep"
    /\ check_for_changes
    /\ watcher_pc' = "load"
    /\ resp' = NoResp
    /\ UNCHANGED <<QueueVars, worker_pc, worker_item, restarts, resume_on_startup,
                   McpVars, apis_dir, api_files_mtimes, executor_apis, checked, generated, executions, adder_pc, marshaled, workers, stop_pc>>

\* variant of the reload: the new descriptors are written into the live
\* table, what was there stays
watcher_load_InPlace ==
    /\ watcher_pc = "load"
    /\ executor_apis' =
         [q \in DOMAIN executor_apis \cup DOMAIN load_apis(apis_dir) |->
            IF q \in DOMAIN load_apis(apis_dir) THEN load_apis(apis_dir)[q]
            ELSE executor_apis[q]]
    /\ api_files_mtimes' = apis_dir
    /\ watcher_pc' = "sleep"
    /\ resp' = NoResp
    /\ UNCHANGED <<QueueVars, worker_pc, worker_item, restarts, resume_on_startup,
                   McpVars, apis_dir, checked, generated, executions, adder_pc, marshaled, workers, stop_pc>>

\* the rest of load_apis and the assignment api_executor.apis = new_apis;
\* routes, schema generator and tool registry are not touched (TODO in code)
watcher_load ==
    /\ watcher_pc = "load"
    /\ executor_apis' = load_apis(apis_dir)
    /\ api_files_mtimes' = apis_dir
    /\ watcher_pc' = "sleep"
    /\ resp' = NoResp
    /\ UNCHANGED <<QueueVars, worker_pc, worker_item, restarts, resume_on_startup,
                   McpVars, apis_dir, checked, generated, executions, adder_pc, marshaled, workers, stop_pc>>

\* a caller (route, tool or test) runs APIExecutor.execute_api(api_path, data)
call_execute_api(api_path, data, handler_raises) ==
    /\ LET out == execute_api(executor_apis, api_path, data, 0, handler_raises)
       IN resp' = [NoResp EXCEPT !.op = "execute_api", !.path = api_path,
                                 !.invoked = out.invoked,
                                 !.code = IF out.ok THEN HTTP_OK ELSE out.value.code,
                                 !.body = out.value]
    /\ UNCHANGED <<QueueVars, worker_pc, worker_item, restarts, resume_on_startup,
                   McpVars, LoaderVars>>

\* the paths callers of the model ask for
CallPaths == {DirectPath, QueuedPath, UnknownUri}

ReloadNext ==
    \/ \E p \in DOMAIN InitialDir, c \in PluginChoices : edit_plugins(p, c)
    \/ watcher_check
    \/ watcher_load
    \/ \E p \in CallPaths, d \in SUBSET FieldNames, r \in BOOLEAN :
            call_execute_api(p, d, r)
    \/ next_id <= MaxReloadJobs /\ add_to_queue("k1", QueuedPath)
    \/ \E w \in Workers : WorkerGet(w)
    \/ \E w \in Workers, r \in BOOLEAN : WorkerFinish(w, r)

\* the executor and the worker pool under hot reload of the plugins
ReloadSpec == Init /\ [][ReloadNext]_vars

\* ------------------------------------------- discovery, file by file
\* The plugin root as APILoader sees it: *.py files with a modification time;
\* a module file either imports or raises, exports mapping tables that are
\* dicts or are not, and its NODE_CLASS_MAPPINGS names one class.  File names
\* are tuples of characters: two module files and a helper file whose name
\* starts with an underscore.
FileA == <<"a">>
FileB == <<"b">>
FileU == <<"_", "u">>
ModuleFiles == {FileA, FileB}
PluginFiles == ModuleFiles \cup {FileU}

FileContents(f) ==
    IF f \in ModuleFiles
    THEN [mtime : 1..MaxMtime, imports : BOOLEAN, mappings_ok : BOOLEAN,
          class : {GoodClass, BadOutputClass}]
    ELSE [mtime : 1..MaxMtime, imports : {TRUE}, mappings_ok : {TRUE},
          class : {NoPlugin}]

\* the endpoint path of the class a module file exports: "<module>/x"
PathOf(f) == f \o <<"/", "x">>

\* _load_api_modules: every *.py file whose name does not start with an
\* underscore is tracked with its modification time (requirements.txt files
\* are re-listed in full by every pass and are left out)
TrackedFiles(root) ==
    [f \in {g \in DOMAIN root : Head(g) # "_"} |-> root[f].mtime]

\* _load_api_modules: the modules whose import did not raise
ImportedModules(root) ==
    {f \in DOMAIN root : Head(f) # "_" /\ root[f].imports}

\* the candidates of a pass that the checker classifies FULLY_COMPATIBLE
CompatibleCandidates(root) ==
    {f \in ImportedModules(root) :
        check_node_compatibility(root[f].class).status = FULLY_COMPATIBLE}

\* the loop of load_apis raises on a mapping table that is not a dict
\* (.items() / .get() of NODE_CLASS_MAPPINGS, NODE_DISPLAY_NAME_MAPPINGS,
\* API_SERVER_QUEUE_MODE); the except around the whole body returns {}
PassRaises(root) == \E f \in ImportedModules(root) : ~root[f].mappings_ok

\* APILoader.load_apis on the files of the root
load_apis_files(root) ==
    IF PassRaises(root)
    THEN EmptyMap
    ELSE [p \in {PathOf(f) : f \in CompatibleCandidates(root)} |->
            [class |-> root[CHOOSE f \in ModuleFiles : PathOf(f) = p].class,
             queue_mode |-> FALSE]]

\* APILoader.check_for_changes on the files of the root: a tracked file is
\* gone or has a later modification time, or a *.py file is not tracked
check_for_changes_files(root, mtimes) ==
    \/ \E f \in DOMAIN mtimes :
          IF f \in DOMAIN root THEN root[f].mtime > mtimes[f] ELSE TRUE
    \/ \E f \in DOMAIN root : f \notin DOMAIN mtimes

DiscoverUnchanged ==
    /\ resp' = NoResp
    /\ UNCHANGED <<QueueVars, worker_pc, worker_item, restarts, resume_on_startup,
                   McpVars, watcher_pc, checked, generated, executions, adder_pc, marshaled, workers, stop_pc>>

\* the environment adds a file or writes one again
write_file(f, content) ==
    /\ IF f \in DOMAIN apis_dir THEN apis_dir[f] # content ELSE TRUE
    /\ apis_dir' = Put(apis_dir, f, content)
    /\ UNCHANGED <<api_files_mtimes, executor_apis>>
    /\ DiscoverUnchanged

\* the environment removes a file
remove_file(f) ==
    /\ f \in DOMAIN apis_dir
    /\ apis_dir' = [g \in DOMAIN apis_dir \ {f} |-> apis_dir[g]]
    /\ UNCHANGED <<api_files_mtimes, executor_apis>>
    /\ DiscoverUnchanged

\* api_watcher: check_for_changes is true, load_apis runs, the executor gets
\* the table it returned
watcher_pass ==
    /\ check_for_changes_files(apis_dir, api_files_mtimes)
    /\ executor_apis' = load_apis_files(apis_dir)
    /\ api_files_mtimes' = TrackedFiles(apis_dir)
    /\ UNCHANGED apis_dir
    /\ DiscoverUnchanged

\* the plugin roots the server is started on
PluginRoots ==
    UNION {[S -> UNION {FileContents(f) : f \in S}] : S \in SUBSET PluginFiles}

\* create_app: the first discovery pass on the root found at startup
InitDiscover ==
    /\ apis_dir \in {r \in PluginRoots : \A f \in DOMAIN r : r[f] \in FileContents(f)}
    /\ api_files_mtimes = TrackedFiles(apis_dir)
    /\ executor_apis = load_apis_files(apis_dir)
    /\ queue = EmptyMap
    /\ processing_queue = <<>>
    /\ state_file = [exists |-> FALSE, queue |-> <<>>]
    /\ worker_pc = [w \in Workers |-> "get"]
    /\ worker_item = [w \in Workers |-> 0]
    /\ next_id = 1
    /\ restarts = 0
    /\ resume_on_startup = TRUE
    /\ tools = EmptyMap
    /\ resource_queue_manager = FALSE
    /\ active_connections = <<>>
    /\ watcher_pc = "sleep"
    /\ checked = NoCheck
    /\ generated = NoSchema
    /\ executions = EmptyMap
    /\ adder_pc = "idle"
    /\ marshaled = NoMarshal
    /\ workers = WorkerList
    /\ stop_pc = "idle"
    /\ resp = NoResp

DiscoverNext ==
    \/ \E f \in PluginFiles : \E content \in FileContents(f) : write_file(f, content)
    \/ \E f \in PluginFiles : remove_file(f)
    \/ watcher_pass

\* discovery and re-discovery on a plugin root that is edited
DiscoverSpec == InitDiscover /\ [][DiscoverNext]_vars

\* ReloadSpec with the worker tasks scheduled fairly: a worker waiting at a
\* non-empty channel gets its id, a started execute_api returns or raises
ReloadLiveSpec ==
    /\ ReloadSpec
    /\ WF_vars(\E w \in Workers : WorkerGet(w))
    /\ \A w \in Workers : WF_vars(\E r \in BOOLEAN : WorkerFinish(w, r))

\* the WebSocket MCP endpoint of main.py
MainSpec == Init /\ [][MainNext]_vars

\* the REST surface of create_app: the routes and the worker pool
RestSpec == Init /\ [][RestNext]_vars

Next ==
    \/ \E k \in api_keys : add_to_queue(k, QueuedPath)
    \/ \E id \in 0..MaxJobs, k \in api_keys \cup {BadKey} : get_queue_status(id, k)
    \/ \E w \in Workers : WorkerGet(w)
    \/ \E w \in Workers, r \in BOOLEAN : WorkerFinish(w, r)
    \/ \E r \in BOOLEAN : Restart(r)

Spec == Init /\ [][Next]_vars

\* Fair scheduling of the worker pool: a worker that can take an id from the
\* channel eventually does, and a handler that was started eventually returns
\* or raises.  Restarts are not fair: the process need not crash.
LiveNext ==
    \/ \E k \in api_keys : add_to_queue(k, QueuedPath)
    \/ \E w \in Workers : WorkerGet(w)
    \/ \E w \in Workers, r \in BOOLEAN : WorkerFinish(w, r)
    \/ \E r \in BOOLEAN : Restart(r)

LiveSpec ==
    /\ Init /\ [][LiveNext]_vars
    /\ WF_vars(\E w \in Workers : WorkerGet(w))
    /\ \A w \in Workers : WF_vars(\E r \in BOOLEAN : WorkerFinish(w, r))

\* ------------------------------------------- marshaling (executor.py)

\* values on the wire are "base64" (a decodable string) or "bad" (a string
\* that b64decode rejects); native values are "ndarray", "path" and "text"
MarshalTags == {"STRING", "IMAGE", "VIDEO", "FILE"}
MarshalNames == {"a", "b"}
WireValues == {"base64", "bad"}
NoValue == "None"    \* Python's None among these values and the type tags

\* TypeConverter.convert_from_base64: decode, then an array for IMAGE and a
\* temporary file for VIDEO and FILE; any failure is an APIError
convert_from_base64(value, type_name) ==
    IF value = "bad" \/ type_name \notin BinaryTypes
    THEN [ok |-> FALSE, value |-> NoValue, temp_files |-> 0]
    ELSE IF type_name = "IMAGE"
    THEN [ok |-> TRUE, value |-> "ndarray", temp_files |-> 0]
    ELSE [ok |-> TRUE, value |-> "path", temp_files |-> 1]

\* TypeConverter.convert_to_base64: an array for IMAGE, the path of a file
\* for VIDEO and FILE; anything else is an APIError
convert_to_base64(value, type_name) ==
    IF \/ type_name = "IMAGE" /\ value = "ndarray"
       \/ type_name \in {"VIDEO", "FILE"} /\ value = "path"
    THEN [ok |-> TRUE, value |-> "base64"]
    ELSE [ok |-> FALSE, value |-> NoValue]

\* what a handler returns for an output slot of a declared type
NativeOf(type_name) ==
    IF type_name = "IMAGE" THEN "ndarray"
    ELSE IF type_name \in {"VIDEO", "FILE"} THEN "path" ELSE "text"

NoArguments == [error |-> 0, kwargs |-> EmptyMap, decoded |-> {}, temp_files |-> 0]

\* APIExecutor._prepare_arguments, the loop over the required fields in
\* declaration order: a missing field raises INVALID_INPUT when the loop
\* reaches it, a present field is converted at once
RECURSIVE prepare_required(_, _, _)
prepare_required(fields, data, acc) ==
    IF fields = <<>> THEN acc
    ELSE LET field == Head(fields).name
             type_name == Head(fields).tag
         IN  IF field \notin DOMAIN data
             THEN [acc EXCEPT !.error = INVALID_INPUT]
             ELSE IF type_name \in BinaryTypes
             THEN LET c == convert_from_base64(data[field], type_name)
                  IN  IF ~c.ok
                      THEN [acc EXCEPT !.error = API_ERROR]
                      ELSE prepare_required(Tail(fields), data,
                               [acc EXCEPT !.kwargs = (field :> c.value) @@ @,
                                           !.decoded = @ \cup {field},
                                           !.temp_files = @ + c.temp_files])
             ELSE prepare_required(Tail(fields), data,
                      [acc EXCEPT !.kwargs = (field :> data[field]) @@ @])

\* APIExecutor._prepare_arguments, the loop over the optional fields: a
\* missing field is left out
RECURSIVE prepare_optional(_, _, _)
prepare_optional(fields, data, acc) ==
    IF fields = <<>> THEN acc
    ELSE LET field == Head(fields).name
             type_name == Head(fields).tag
         IN  IF field \notin DOMAIN data
             THEN prepare_optional(Tail(fields), data, acc)
             ELSE IF type_name \in BinaryTypes
             THEN LET c == convert_from_base64(data[field], type_name)
                  IN  IF ~c.ok
                      THEN [acc EXCEPT !.error = API_ERROR]
                      ELSE prepare_optional(Tail(fields), data,
                               [acc EXCEPT !.kwargs = (field :> c.value) @@ @,
                                           !.decoded = @ \cup {field},
                                           !.temp_files = @ + c.temp_files])
             ELSE prepare_optional(Tail(fields), data,
                      [acc EXCEPT !.kwargs = (field :> data[field]) @@ @])

\* APIExecutor._prepare_arguments
prepare_arguments(data, input_types) ==
    LET r == prepare_required(input_types.required, data, NoArguments)
    IN  IF r.error # 0 THEN r
        ELSE prepare_optional(input_types.optional, data, r)

\* execute_api on a tuple result: slot i is named by RETURN_NAMES when that
\* has an entry for it, by output_<i> otherwise (i counts from 0)
FallbackNames == <<"output_0", "output_1">>

name_result(result, cls) ==
    [i \in DOMAIN result |->
        [name |-> IF cls.has_RETURN_NAMES /\ i <= Len(cls.RETURN_NAMES)
                  THEN cls.RETURN_NAMES[i] ELSE FallbackNames[i],
         value |-> result[i]]]

\* return_names.index(key): the first position, 0 when there is none
IndexOf(names, key) ==
    IF \E i \in DOMAIN names : names[i] = key
    THEN CHOOSE i \in DOMAIN names :
             names[i] = key /\ \A j \in 1..(i - 1) : names[j] # key
    ELSE 0

\* APIExecutor._process_result, the type it finds for a key: only through
\* the position of the key in RETURN_NAMES
TypeOfKey(key, cls) ==
    IF cls.has_RETURN_NAMES /\ cls.RETURN_NAMES # <<>> /\ cls.RETURN_TYPES # <<>>
    THEN LET index == IndexOf(cls.RETURN_NAMES, key)
         IN  IF index # 0 /\ index <= Len(cls.RETURN_TYPES)
             THEN cls.RETURN_TYPES[index] ELSE NoValue
    ELSE NoValue

\* APIExecutor._process_result on a dict: a value whose type was found and is
\* binary is encoded, every other value is passed on as it is
process_result(result, cls) ==
    LET conv(e) == IF TypeOfKey(e.name, cls) \in BinaryTypes
                   THEN convert_to_base64(e.value, TypeOfKey(e.name, cls))
                   ELSE [ok |-> TRUE, value |-> e.value]
    IN  [ok |-> \A i \in DOMAIN result : conv(result[i]).ok,
         fields |-> [i \in DOMAIN result |->
                        [name |-> result[i].name, value |-> conv(result[i]).value]]]

MarshalUnchanged ==
    /\ resp' = NoResp
    /\ UNCHANGED <<QueueVars, worker_pc, worker_item, restarts, resume_on_startup,
                   McpVars, apis_dir, api_files_mtimes, executor_apis, watcher_pc,
                   checked, generated, executions, adder_pc, workers, stop_pc>>

\* execute_api up to the call of the handler
call_prepare_arguments(data, input_types) ==
    /\ marshaled' = [op |-> "prepare", data |-> data, input_types |-> input_types,
                     out |-> prepare_arguments(data, input_types)]
    /\ MarshalUnchanged

\* execute_api from the return of the handler: the tuple is named, then
\* processed
call_process_result(cls) ==
    /\ marshaled' = [op |-> "process", cls |-> cls,
                     out |-> process_result(
                                 name_result([i \in DOMAIN cls.RETURN_TYPES |->
                                                 NativeOf(cls.RETURN_TYPES[i])], cls),
                                 cls)]
    /\ MarshalUnchanged

\* the Input Specs drawn: up to two required fields in either order, and at
\* most one optional field
MarshalField(names) == [name : names, tag : MarshalTags]

RequiredSpecs ==
    {<<>>} \cup {<<f>> : f \in MarshalField(MarshalNames)}
           \cup {<<f, g>> : <<f, g>> \in
                    {p \in MarshalField(MarshalNames) \X MarshalField(MarshalNames) :
                        p[1].name # p[2].name}}

OptionalSpecs == {<<>>, <<[name |-> "o", tag |-> "FILE"]>>}

MarshalData ==
    UNION {[S -> WireValues] : S \in SUBSET (MarshalNames \cup {"o"})}

\* the output declarations drawn: one or two slots, RETURN_NAMES absent or
\* naming none, one or two of them
OutputClasses ==
    [RETURN_TYPES : {<<t>> : t \in MarshalTags} \cup (MarshalTags \X MarshalTags),
     has_RETURN_NAMES : BOOLEAN,
     RETURN_NAMES : {<<>>, <<"r1">>, <<"r1", "r2">>}]

MarshalNext ==
    \/ \E data \in MarshalData, required \in RequiredSpecs, optional \in OptionalSpecs :
          call_prepare_arguments(data, [required |-> required, optional |-> optional])
    \/ \E cls \in {c \in OutputClasses : c.has_RETURN_NAMES \/ c.RETURN_NAMES = <<>>} :
          call_process_result(cls)

MarshalSpec == Init /\ [][MarshalNext]_vars

\* ------------------------------------------- shutdown (stop_workers)

StopUnchanged ==
    /\ resp' = NoResp
    /\ UNCHANGED <<processing_queue, next_id, restarts, resume_on_startup, McpVars,
                   apis_dir, api_files_mtimes, executor_apis, watcher_pc, checked,
                   generated, executions, adder_pc, marshaled>>

\* where the CancelledError is raised in a worker that was cancelled
Cancelled(pc) ==
    IF pc = "get" THEN "cancelled_get"
    ELSE IF pc = "exec" THEN "cancelled_exec" ELSE pc

\* stop_workers up to its await: cancel() on every task of the list, then
\* gather when the list is not empty
stop_workers_cancel ==
    /\ stop_pc = "idle"
    /\ worker_pc' = [w \in Workers |->
                        IF w \in Range(workers) THEN Cancelled(worker_pc[w])
                        ELSE worker_pc[w]]
    /\ stop_pc' = IF workers = <<>> THEN "done" ELSE "gather"
    /\ UNCHANGED <<queue, state_file, worker_item, workers>>
    /\ StopUnchanged

\* variant of the worker: a cancellation that arrives during execute_api is
\* handled like an error of the handler, the Job fails and the loop goes on
worker_cancelled_Swallowed(w) ==
    /\ worker_pc[w] \in {"cancelled_get", "cancelled_exec"}
    /\ IF worker_pc[w] = "cancelled_exec"
       THEN /\ queue' = [queue EXCEPT ![worker_item[w]] =
                            Finished(@, [ok |-> FALSE, value |-> ErrorResponse(API_ERROR)])]
            /\ state_file' = SavedState(queue')
            /\ worker_pc' = [worker_pc EXCEPT ![w] = "get"]
       ELSE /\ worker_pc' = [worker_pc EXCEPT ![w] = "done"]
            /\ UNCHANGED <<queue, state_file>>
    /\ worker_item' = [worker_item EXCEPT ![w] = 0]
    /\ UNCHANGED <<workers, stop_pc>>
    /\ StopUnchanged

\* _worker_task when the CancelledError is raised at its await: neither
\* `except Exception` catches it, `except asyncio.CancelledError: break` ends
\* the task; the Job it was working on is left as it is
worker_cancelled(w) ==
    /\ worker_pc[w] \in {"cancelled_get", "cancelled_exec"}
    /\ worker_pc' = [worker_pc EXCEPT ![w] = "done"]
    /\ worker_item' = [worker_item EXCEPT ![w] = 0]
    /\ UNCHANGED <<queue, state_file, workers, stop_pc>>
    /\ StopUnchanged

\* stop_workers after its await: gather returns when every task has ended,
\* the list is emptied
stop_workers_return ==
    /\ stop_pc = "gather"
    /\ \A i \in DOMAIN workers : worker_pc[workers[i]] = "done"
    /\ workers' = <<>>
    /\ stop_pc' = "done"
    /\ UNCHANGED <<queue, state_file, worker_pc, worker_item>>
    /\ StopUnchanged

StopNext ==
    \/ \E k \in api_keys : add_to_queue(k, QueuedPath)
    \/ \E w \in Workers : WorkerGet(w)
    \/ \E w \in Workers, r \in BOOLEAN : WorkerFinish(w, r)
    \/ stop_workers_cancel
    \/ \E w \in Workers : worker_cancelled(w)
    \/ stop_workers_return

\* the event loop runs every task that is ready: a cancelled worker gets its
\* CancelledError, and stop_workers goes on once gather is done
StopSpec ==
    /\ Init /\ [][StopNext]_vars
    /\ \A w \in Workers : WF_vars(worker_cancelled(w))
    /\ WF_vars(stop_workers_return)

\* ------------------------------------------------------------------ claims
Pending(id) == id \in DOMAIN queue /\ queue[id].status \in {"queued", "processing"}
Terminal(id) == id \in DOMAIN queue /\ queue[id].status \in {"completed", "failed"}

\* C1: while the process runs (no restart in the step), every change of a
\* Job's status is queued->processing, processing->completed or
\* processing->failed, and no Job leaves the Job map.
C1_MonotonicStatus ==
    [][restarts' = restarts =>
        \A id \in DOMAIN queue :
            /\ id \in DOMAIN queue'
            /\ queue'[id].status # queue[id].status =>
                  <<queue[id].status, queue'[id].status>> \in
                      {<<"queued", "processing">>, <<"processing", "completed">>,
                       <<"processing", "failed">>}]_vars

\* a run in which one Job went all the way to completed and another to failed
C1_Witness ==
    \E a, b \in DOMAIN queue :
        queue[a].status = "completed" /\ queue[b].status = "failed"

\* C2: get_queue_status raises NOT_FOUND for an id that is not in the Job
\* map, UNAUTHORIZED (and nothing of the Job) for a key that is not the
\* Job's owner, succeeds only for the owner, and never changes the Job map.
C2_StatusGate ==
    [][resp'.op = "get_queue_status" =>
        /\ queue' = queue
        /\ (resp'.id \notin DOMAIN queue) => resp'.code = NOT_FOUND
        /\ (resp'.id \in DOMAIN queue /\ queue[resp'.id].api_key # resp'.cred) =>
              resp'.code = UNAUTHORIZED /\ resp'.body = ErrorResponse(UNAUTHORIZED)
        /\ resp'.code = HTTP_OK =>
              resp'.id \in DOMAIN queue /\ queue[resp'.id].api_key = resp'.cred]_vars

\* a poll of a completed Job by a configured key that is not its owner
C2_Witness ==
    /\ resp.op = "get_queue_status"
    /\ resp.id \in DOMAIN queue
    /\ queue[resp.id].status = "completed"
    /\ resp.cred \in api_keys
    /\ resp.cred # queue[resp.id].api_key
    /\ resp.code = UNAUTHORIZED

\* the last response carries the status, result or error of Job resp.id
DisclosesJob ==
    /\ resp.op \in {"rest", "get_queue_status", "read_resource"}
    /\ resp.code = HTTP_OK
    /\ resp.id \in DOMAIN queue
    /\ resp.body.kind \in {"pending", "result", "error",
                            "queued", "processing", "completed", "failed"}

\* C3: on the REST check-status route and on an MCP resource read, a Job's
\* status, result and error go only to the credential that submitted it.
C3_OnlyOwnerReads ==
    DisclosesJob => resp.cred = queue[resp.id].api_key

\* C9: an MCP client without a valid bearer credential gets UNAUTHORIZED for
\* every tool call and every resource read: no tool runs, no content returns.
C9_McpGate ==
    (/\ resp.op \in {"mcp_call_tool", "mcp_read_resource", "execute_tool", "read_resource"}
     /\ resp.cred \notin api_keys)
    => (/\ resp.code = UNAUTHORIZED
        /\ ~resp.invoked
        /\ resp.body.kind \notin {"call_tool_response", "read_resource_response"})

\* C4: after a start with resume enabled, every Job the state file records
\* as queued or processing is in the Job map with status queued and its id
\* is in the dispatch channel.
C4_ReloadRequeuesAll ==
    [][(restarts' # restarts /\ resume_on_startup' /\ state_file.exists) =>
        \A i \in 1..Len(state_file.queue) :
            state_file.queue[i].status \in {"queued", "processing"} =>
                /\ state_file.queue[i].queue_id \in DOMAIN queue'
                /\ queue'[state_file.queue[i].queue_id].status = "queued"
                /\ state_file.queue[i].queue_id \in Range(processing_queue')]_vars

\* the Jobs of the previous run were discarded on purpose: resume is disabled
Discarded == restarts > 0 /\ ~resume_on_startup

\* C5: under fair scheduling of the workers, every Job that is queued or
\* processing eventually is completed or failed (unless the process was
\* restarted with resume disabled).
C5_EventuallyTerminal ==
    \A id \in JobIds : Pending(id) ~> (Terminal(id) \/ Discarded)

\* C6: add_to_queue on a channel at its maximum depth raises the queue-full
\* error and leaves the Job map, the channel and the state file as they were.
C6_QueueFullRejects ==
    [][(resp'.op = "add_to_queue" /\ Len(processing_queue) >= max_queue_size) =>
        /\ resp'.code = API_ERROR
        /\ resp'.body = ErrorResponse(API_ERROR)
        /\ queue' = queue
        /\ processing_queue' = processing_queue
        /\ state_file' = state_file]_vars

\* a rejected submission while the channel holds max_queue_size ids
C6_Witness ==
    /\ resp.op = "add_to_queue"
    /\ resp.code = API_ERROR
    /\ Len(processing_queue) = max_queue_size

\* C7: a Job's result is set iff it is completed and its error is set iff it
\* is failed.
C7_ResultIffCompleted ==
    \A id \in DOMAIN queue :
        /\ (queue[id].result # None) <=> (queue[id].status = "completed")
        /\ (queue[id].error # None) <=> (queue[id].status = "failed")

\* a Job map that holds a completed, a failed and a reloaded queued Job
C7_Witness ==
    /\ restarts > 0
    /\ \E a, b, c \in DOMAIN queue :
        /\ queue[a].status = "completed" /\ queue[a].result = ResultOf(a)
        /\ queue[b].status = "failed" /\ queue[b].error # None
        /\ queue[c].status = "queued"

\* C8: a request to an /api route (direct, queued submit, check-status)
\* whose bearer credential is absent or not configured is answered
\* UNAUTHORIZED, invokes no handler, creates no Job and changes nothing.
C8_RestGate ==
    [][(resp'.op = "rest" /\ resp'.path \in ApiUrls /\ resp'.cred \notin api_keys) =>
        /\ resp'.code = UNAUTHORIZED
        /\ resp'.body = ErrorResponse(UNAUTHORIZED)
        /\ ~resp'.invoked
        /\ queue' = queue
        /\ processing_queue' = processing_queue
        /\ state_file' = state_file
        /\ next_id' = next_id]_vars

\* a submission without a credential is rejected while Jobs of other callers
\* are in the Job map and the channel has room
C8_Witness ==
    /\ resp.op = "rest"
    /\ resp.path = ApiUrl(QueuedPath)
    /\ resp.cred = NoCredential
    /\ resp.code = UNAUTHORIZED
    /\ queue # EmptyMap
    /\ Len(processing_queue) < max_queue_size
    /\ next_id <= MaxJobs

\* C10: GET /openapi/openapi.json and GET /openapi/{module}.json return the
\* schema document to a request without an Authorization header.
C10_SchemaRoutesExempt ==
    (/\ resp.op = "rest"
     /\ resp.path \in {OpenapiAllUrl, OpenapiModuleUrl}
     /\ resp.cred = NoCredential)
    => (resp.code = HTTP_OK /\ resp.body = SchemaDocument)

\* C11: for the owning credential a poll returns the pending marker exactly
\* when the Job is queued or processing, the stored result exactly when it is
\* completed and the stored error exactly when it is failed.
C11_PollMatchesStatus ==
    (/\ resp.op = "get_queue_status"
     /\ resp.id \in DOMAIN queue
     /\ resp.cred = queue[resp.id].api_key)
    => LET item == queue[resp.id] IN
       /\ resp.code = HTTP_OK
       /\ (resp.body = PendingMarker(resp.id)) <=> (item.status \in {"queued", "processing"})
       /\ (resp.body = item.result) <=> (item.status = "completed")
       /\ (resp.body = item.error) <=> (item.status = "failed")

\* the owner polls a failed Job and gets its error
C11_Witness ==
    /\ resp.op = "get_queue_status"
    /\ resp.id \in DOMAIN queue
    /\ resp.cred = queue[resp.id].api_key
    /\ queue[resp.id].status = "failed"
    /\ resp.body = ErrorResponse(API_ERROR)

\* C12: a poll changes no Job, and within one run of the process a Job that
\* is completed or failed answers its owner's poll the same way after every
\* later step (poll, submission or worker step).
C12_PollIsPureRead ==
    [][/\ (resp'.op = "get_queue_status") =>
            (queue' = queue /\ processing_queue' = processing_queue /\ state_file' = state_file)
       /\ (restarts' = restarts) =>
            \A id \in DOMAIN queue :
                Terminal(id) =>
                    /\ id \in DOMAIN queue'
                    /\ QueueStatusOutcome(queue', id, queue[id].api_key)
                         = QueueStatusOutcome(queue, id, queue[id].api_key)]_vars

\* the owner polls a completed Job while another Job is being processed and
\* a third one waits
C12_Witness ==
    /\ resp.op = "get_queue_status"
    /\ resp.id \in DOMAIN queue
    /\ resp.cred = queue[resp.id].api_key
    /\ queue[resp.id].status = "completed"
    /\ resp.body = ResultOf(resp.id)
    /\ \E w \in Workers : worker_pc[w] = "exec"
    /\ processing_queue # <<>>

\* the worker tasks that are still in their loop
LiveWorkers == {w \in Workers : worker_pc[w] \in {"get", "exec"}}

\* C13: an exception raised by a handler ends neither a worker nor the
\* engine: a direct call answers API_ERROR, a queued Job ends failed with a
\* structured error, the worker that ran it is back waiting for the next id
\* and the number of live workers stays the pool size.
C13_HandlerExceptionContained ==
    [][/\ \A w \in Workers :
            WorkerFinish(w, TRUE) =>
                /\ queue'[worker_item[w]].status = "failed"
                /\ queue'[worker_item[w]].error = ErrorResponse(API_ERROR)
                /\ queue'[worker_item[w]].result = None
                /\ worker_pc'[w] = "get"
       /\ \A p \in DirectPaths, c \in api_keys :
            direct_route(p, c, TRUE) =>
                /\ resp'.code = API_ERROR
                /\ resp'.body = ErrorResponse(API_ERROR)
                /\ worker_pc' = worker_pc
       /\ Cardinality({w \in Workers : worker_pc'[w] \in {"get", "exec"}}) = max_threads]_vars

\* a direct call has just answered API_ERROR, an earlier queued Job failed,
\* a later one was completed, and the whole pool is alive
C13_Witness ==
    /\ resp.op = "rest"
    /\ resp.invoked
    /\ resp.code = API_ERROR
    /\ \E id1, id2 \in DOMAIN queue :
          /\ id1 < id2
          /\ queue[id1].status = "failed"
          /\ queue[id1].error = ErrorResponse(API_ERROR)
          /\ queue[id2].status = "completed"
    /\ LiveWorkers = Workers

MeetsContract(cls) ==
    /\ cls.has_INPUT_TYPES /\ cls.has_RETURN_TYPES /\ cls.has_FUNCTION
    /\ cls.function_callable
    /\ \A f \in cls.inputs : f.tag \in SUPPORTED_TYPES
    /\ \A i \in DOMAIN cls.RETURN_TYPES : cls.RETURN_TYPES[i] \in SUPPORTED_TYPES

\* C15: check_node_compatibility returns FULLY_COMPATIBLE iff the class has
\* INPUT_TYPES, RETURN_TYPES and FUNCTION, the entry method is callable and
\* every declared input and output type tag is supported; otherwise it returns
\* INCOMPATIBLE with a non-empty reason; it never returns PARTIALLY_COMPATIBLE.
C15_CompatibleIffContract ==
    (checked.verdict.status # "none") =>
        /\ (checked.verdict.status = FULLY_COMPATIBLE) <=> MeetsContract(checked.cls)
        /\ (checked.verdict.status # FULLY_COMPATIBLE) =>
                (checked.verdict.status = INCOMPATIBLE /\ checked.verdict.reason # "")
        /\ checked.verdict.status # PARTIALLY_COMPATIBLE

\* C16: in every state, after the initial load and after any reload, every
\* descriptor of the live endpoint table was classified FULLY_COMPATIBLE, and
\* no class in the table declares an unsupported input or output type tag.
C16_TableOnlyCompatible ==
    \A p \in DOMAIN executor_apis :
        /\ executor_apis[p].compatibility.status = FULLY_COMPATIBLE
        /\ check_node_compatibility(executor_apis[p].class).status = FULLY_COMPATIBLE
        /\ \A f \in executor_apis[p].class.inputs : f.tag \in SUPPORTED_TYPES
        /\ \A i \in DOMAIN executor_apis[p].class.RETURN_TYPES :
                executor_apis[p].class.RETURN_TYPES[i] \in SUPPORTED_TYPES

\* C17: hot reload replaces the endpoint table in one step: the live table
\* changes only in the watcher's assignment, and what it becomes is the
\* complete table load_apis builds from the plugin directory -- never a mix of
\* old and new descriptors; a call in flight sees the table before or after.
C17_AtomicReload ==
    [][(executor_apis' # executor_apis) =>
            /\ watcher_pc = "load" /\ watcher_pc' = "sleep"
            /\ executor_apis' = load_apis(apis_dir)
            /\ \A w \in Workers : worker_pc'[w] = worker_pc[w]
            /\ queue' = queue]_vars

\* a reload has removed the endpoint of a Job a worker is executing
C17_Witness ==
    /\ \E w \in Workers :
          /\ worker_pc[w] = "exec"
          /\ queue[worker_item[w]].endpoint \notin DOMAIN executor_apis
    /\ executor_apis = load_apis(apis_dir)
    /\ executor_apis # apis
    /\ watcher_pc = "sleep"

\* C18: after every completed re-discovery pass the REST route table and the
\* schema document (both generated from the table loaded at startup) and the
\* MCP tool catalog describe exactly the endpoints of the live table: the same
\* paths, the same queue mode for each path.
C18_SurfacesFollowTable ==
    [][(watcher_pc = "load" /\ watcher_pc' = "sleep") =>
            /\ DOMAIN apis = DOMAIN executor_apis'
            /\ \A p \in DOMAIN apis : apis[p].queue_mode = executor_apis'[p].queue_mode
            /\ resource_queue_manager =>
                    {tools'[n] : n \in DOMAIN tools'} = DOMAIN executor_apis']_vars

\* C19: a call of an MCP tool whose endpoint is in queue mode submits a Job
\* and returns its id without running the handler in the call; a call of a
\* tool whose endpoint is in direct mode runs the handler and returns its
\* result.
C19_ToolFollowsQueueMode ==
    (/\ resp.op = "execute_tool"
     /\ resp.path \in DOMAIN tools
     /\ tools[resp.path] \in DOMAIN executor_apis)
    => IF executor_apis[tools[resp.path]].queue_mode
       THEN /\ ~resp.invoked
            /\ resp.body.kind = "pending"
            /\ resp.body.id \in DOMAIN queue
       ELSE /\ resp.invoked
            /\ resp.body.kind \in {"result", "text"}

\* the replies of mcp_endpoint that are messages of type error
ErrorKinds == {"error:unknown_message_type", "error:tool_not_found",
               "error:resource_not_found"}

\* C20: on an MCP connection a message of an unknown type, a message that is
\* not JSON and a request without its required field (tool name, uri) are
\* answered with a message of type error, and the connection stays open.
C20_MalformedKeepsConnection ==
    [][\A c \in Credentials :
        (\/ mcp_message(c, OtherReply(c, "unknown"))
         \/ mcp_message(c, OtherReply(c, "invalid_json"))
         \/ mcp_message(c, CallToolReply(c, Missing))
         \/ mcp_message(c, ReadResourceReply(c, Missing)))
        => /\ resp'.body.kind \in ErrorKinds
           /\ c \in Range(active_connections')]_vars

\* C21: for every descriptor the required list of the generated request
\* schema (REST) and of the generated tool input schema (MCP) is exactly the
\* set of fields of the required section of the Input Spec.
C21_RequiredFieldsExact ==
    generated.done =>
        LET required == {f.name : f \in {g \in generated.cls.inputs : g.section = "required"}}
        IN /\ generated.request_schema.required = required
           /\ generated.input_schema.required = required

C23_SnapshotFollowsTransition ==
    [][(/\ restarts' = restarts
        /\ next_id' # next_id \/ worker_pc' # worker_pc)
       => /\ state_file'.exists
          /\ Len(state_file'.queue) = Cardinality(DOMAIN queue')
          /\ Range(state_file'.queue) = {to_dict(queue'[id]) : id \in DOMAIN queue'}]_vars

\* a worker has stored a result next to a Job still waiting, and the file
\* holds both as they are in the Job map
C23_Witness ==
    /\ \E id \in DOMAIN queue : queue[id].status = "completed"
    /\ \E id \in DOMAIN queue : queue[id].status = "queued"
    /\ \E w \in Workers : worker_pc[w] = "get"
    /\ restarts = 0
    /\ Range(state_file.queue) = {to_dict(queue[id]) : id \in DOMAIN queue}

\* C24: in every state a Job is queued iff its id is in the dispatch
\* channel, and no id is in the channel more than once.
C24_QueuedIffInChannel ==
    /\ \A id \in DOMAIN queue :
           queue[id].status = "queued" <=> id \in Range(processing_queue)
    /\ Range(processing_queue) \subseteq DOMAIN queue
    /\ Cardinality(Range(processing_queue)) = Len(processing_queue)

C26_ProcessingBound ==
    Cardinality({id \in DOMAIN queue : queue[id].status = "processing"}) <= max_threads

\* every worker of the pool holds a Job and one more Job waits in the channel
C26_Witness ==
    /\ Cardinality({id \in DOMAIN queue : queue[id].status = "processing"}) = max_threads
    /\ \A w \in Workers : worker_pc[w] = "exec"
    /\ processing_queue # <<>>

\* C27: within one run of the process execute_api is called at most once for
\* a Job id, and no two workers hold the same Job.
C27_AtMostOnce ==
    /\ \A id \in DOMAIN executions : executions[id] <= 1
    /\ \A w, v \in Workers :
           w # v /\ worker_pc[w] = "exec" /\ worker_pc[v] = "exec"
               => worker_item[w] # worker_item[v]

\* both workers hold a Job while an earlier Job of this run has been executed
C27_Witness ==
    /\ \A w \in Workers : worker_pc[w] = "exec"
    /\ \E id \in DOMAIN executions : executions[id] = 1
    /\ restarts = 0

\* C28: owner, endpoint and input of a Job never change: every step (worker
\* transition, poll, save, reload from the state file) leaves the three
\* fields of every Job that stays in the Job map as they were, and the entry
\* of the Job in the state file carries the same three fields.
C28_IdentityFieldsImmutable ==
    [][/\ \A id \in DOMAIN queue \cap DOMAIN queue' :
             /\ queue'[id].api_key = queue[id].api_key
             /\ queue'[id].endpoint = queue[id].endpoint
             /\ queue'[id].data = queue[id].data
       /\ \A i \in DOMAIN state_file'.queue :
             LET d == state_file'.queue[i] IN
             d.queue_id \in DOMAIN queue' =>
                 /\ d.api_key = queue'[d.queue_id].api_key
                 /\ d.endpoint = queue'[d.queue_id].endpoint
                 /\ d.data = queue'[d.queue_id].data]_vars

\* after a reload with resume: a finished Job and a re-queued Job of the
\* earlier run, the first of them owned by k2, both with their input
C28_Witness ==
    /\ restarts = 1 /\ resume_on_startup
    /\ \E a, b \in DOMAIN queue :
           /\ queue[a].status = "completed" /\ queue[a].api_key = "k2"
           /\ queue[a].data = FieldNames
           /\ queue[b].status = "queued" /\ queue[b].endpoint = QueuedPath

\* C29: a submitted Job is in the state file before its id is on the
\* dispatch channel: at no statement of the program is an id on the channel
\* while the latest state file lacks the Job.
C29_PersistedBeforeDispatch ==
    \A id \in Range(processing_queue) :
        \E i \in DOMAIN state_file.queue : state_file.queue[i].queue_id = id

\* C30: Jobs leave `queued` in the order in which their ids entered the
\* dispatch channel: a submission puts its id behind the ids already there,
\* and the Job a worker moves to processing is the one whose id is first in
\* the channel.  The order of completion is not constrained.
C30_FifoDispatch ==
    [][restarts' = restarts =>
        /\ next_id' # next_id => processing_queue' = Append(processing_queue, next_id)
        /\ \A id \in DOMAIN queue :
               queue[id].status = "queued" /\ queue'[id].status = "processing"
                   => /\ processing_queue # <<>>
                      /\ id = Head(processing_queue)
                      /\ processing_queue' = Tail(processing_queue)]_vars

\* the second Job has completed while the first, picked up before it, is
\* still in processing, and a third waits
C30_Witness ==
    \E a, b, c \in DOMAIN queue :
        /\ a < b /\ b < c
        /\ queue[a].status = "processing"
        /\ queue[b].status = "completed"
        /\ queue[c].status = "queued"

\* C31: a failed write of the state file is not fatal.  Whether the write
\* succeeds or not, an accepted submission leaves the new Job queued in the
\* Job map with its id on the channel, a worker's step leaves the Job in its
\* new status and the worker alive; and every write that succeeds writes the
\* whole current Job map, so the file catches up.
C31_WriteFailureNotFatal ==
    [][/\ next_id' # next_id =>
            /\ next_id \in DOMAIN queue' /\ queue'[next_id].status = "queued"
            /\ processing_queue' = Append(processing_queue, next_id)
       /\ \A w \in Workers :
            /\ worker_pc'[w] \in {"get", "exec"}
            /\ worker_pc[w] = "get" /\ worker_pc'[w] = "exec"
                  => queue'[worker_item'[w]].status = "processing"
            /\ worker_pc[w] = "exec" /\ worker_pc'[w] # "exec"
                  => queue'[worker_item[w]].status \in {"completed", "failed"}
       /\ state_file' # state_file => state_file' = SavedState(queue')]_vars

\* the write after a handler's return has failed: the file still shows the
\* Job in processing, the Job map has it completed, and the workers are back
\* at the channel, where another Job waits
C31_Witness ==
    /\ \E id \in DOMAIN queue :
           /\ queue[id].status = "completed"
           /\ \E i \in DOMAIN state_file.queue :
                  /\ state_file.queue[i].queue_id = id
                  /\ state_file.queue[i].status = "processing"
    /\ \A w \in Workers : worker_pc[w] = "get"
    /\ processing_queue # <<>>

\* C32: a Job whose endpoint a hot reload has removed is still picked up and
\* ends failed with NOT_FOUND; a Job whose endpoint is in the live table never
\* gets NOT_FOUND; and no Job stays queued or processing forever.
C32_RemovedEndpointJobFails ==
    /\ [][\A w \in Workers :
            worker_pc[w] = "exec" /\ worker_pc'[w] = "get" =>
                LET queue_id == worker_item[w] IN
                IF queue[queue_id].endpoint \notin DOMAIN executor_apis
                THEN /\ queue'[queue_id].status = "failed"
                     /\ queue'[queue_id].error = ErrorResponse(NOT_FOUND)
                ELSE /\ queue'[queue_id].status \in {"completed", "failed"}
                     /\ queue'[queue_id].error # ErrorResponse(NOT_FOUND)]_vars
    /\ \A id \in 1..MaxReloadJobs : Pending(id) ~> Terminal(id)

\* the Job's endpoint was removed by a reload and the Job has ended failed
\* with NOT_FOUND
C32_Witness ==
    /\ \E id \in DOMAIN queue :
           /\ queue[id].status = "failed"
           /\ queue[id].error = ErrorResponse(NOT_FOUND)
           /\ queue[id].endpoint \notin DOMAIN executor_apis
    /\ watcher_pc = "sleep"
    /\ DirectPath \in DOMAIN executor_apis

\* C33: after the first discovery pass and after every re-discovery pass the
\* live table holds every fully compatible candidate of every module that
\* imported, whatever the other candidates and modules are like, and a pass
\* that fails does not empty a table that was populated.
C33_DiscoveryIsolatesFaults ==
    /\ \A f \in CompatibleCandidates(apis_dir) : PathOf(f) \in DOMAIN executor_apis
    /\ [][(/\ apis_dir' = apis_dir
            /\ (api_files_mtimes' # api_files_mtimes \/ executor_apis' # executor_apis))
           => /\ \A f \in CompatibleCandidates(apis_dir) :
                     PathOf(f) \in DOMAIN executor_apis'
              /\ (executor_apis # EmptyMap /\ PassRaises(apis_dir))
                     => executor_apis' # EmptyMap]_vars

\* C34: when no file under the plugin root has been added, removed or
\* modified since a discovery pass, check_for_changes is false (right after
\* the first pass and right after every later pass, hence on every call until
\* a file changes); and when it is false, it becomes true with the next file
\* that is added, removed or modified.
C34_ChangeDetection ==
    /\ ~check_for_changes_files(apis_dir, api_files_mtimes)
    /\ [][/\ (apis_dir' = apis_dir)
                => ~check_for_changes_files(apis_dir', api_files_mtimes')
          /\ (apis_dir' # apis_dir /\ ~check_for_changes_files(apis_dir, api_files_mtimes))
                => check_for_changes_files(apis_dir', api_files_mtimes')]_vars

\* C35: in the result of execute_api every field whose declared output type
\* is IMAGE, VIDEO or FILE carries the base64 wire form, never the native
\* value, whether the field is named by RETURN_NAMES or by the positional
\* fallback output_<i>.
C35_BinaryOutputsEncoded ==
    (marshaled.op = "process" /\ marshaled.out.ok) =>
        \A i \in DOMAIN marshaled.cls.RETURN_TYPES :
            marshaled.cls.RETURN_TYPES[i] \in BinaryTypes
                => marshaled.out.fields[i].value = "base64"

\* C36: when a required field is missing, execute_api fails with
\* INVALID_INPUT before any field is marshaled: no field has been decoded
\* and no temporary file created, whatever the order of the fields.
C36_MissingFieldBeforeMarshaling ==
    (/\ marshaled.op = "prepare"
     /\ \E i \in DOMAIN marshaled.input_types.required :
            marshaled.input_types.required[i].name \notin DOMAIN marshaled.data)
        => /\ marshaled.out.error = INVALID_INPUT
           /\ marshaled.out.decoded = {}
           /\ marshaled.out.temp_files = 0

\* C37: writes of the snapshot do not interleave with each other or with an
\* update of the Job map: whenever the file changes, under any interleaving
\* of submissions and worker steps, it holds exactly one entry per Job of the
\* map as the map is at that instant, each entry the serialization of its Job.
C37_SnapshotAtOneInstant ==
    [][state_file' # state_file =>
          /\ state_file'.exists
          /\ Len(state_file'.queue) = Cardinality(DOMAIN queue')
          /\ \A id \in DOMAIN queue' :
                 \E i \in DOMAIN state_file'.queue :
                     state_file'.queue[i] = to_dict(queue'[id])]_vars

\* the file written while one Job is with a worker, one has finished and one
\* has just been submitted
C37_Witness ==
    /\ state_file.exists
    /\ {state_file.queue[i].status : i \in DOMAIN state_file.queue}
           = {"queued", "processing", "completed"}
    /\ \A i \in DOMAIN state_file.queue :
           state_file.queue[i] = to_dict(queue[state_file.queue[i].queue_id])
    /\ \E w \in Workers : worker_pc[w] = "exec"

\* C38: on an MCP connection the first message the server sends is
\* server_info, and every capabilities, list_tools, call_tool,
\* list_resources, list_resource_templates or read_resource request is
\* answered by one message of the matching response type or of type error.
C38_McpRequestsAnswered ==
    [][/\ \A c \in Credentials :
              mcp_connect(c) => resp'.body.kind = "server_info"
       /\ \A c \in Credentials, n \in MainToolNames :
              mcp_message(c, CallToolReply(c, n))
                  => resp'.body.kind \in {"call_tool_response", "error:tool_not_found"}
       /\ \A c \in Credentials, u \in MainUris :
              mcp_message(c, ReadResourceReply(c, u))
                  => resp'.body.kind \in {"read_resource_response",
                                          "error:resource_not_found"}
       /\ \A c \in Credentials :
              \A t \in {"capabilities", "list_tools", "list_resources",
                        "list_resource_templates"} :
                  mcp_message(c, OtherReply(c, t)) => resp'.body.kind = t]_vars

\* C39: every tool name that list_tools returns, passed unchanged to
\* call_tool, resolves to the endpoint it was derived from: the answer is a
\* call_tool_response of that endpoint, never tool_not_found, also when the
\* module name contains an underscore.
C39_ListedToolResolves ==
    (/\ resp.op = "mcp_call_tool"
     /\ \E p \in DOMAIN api_registry : resp.path = Replace(p, "/", "_"))
        => \E p \in DOMAIN api_registry :
               /\ resp.path = Replace(p, "/", "_")
               /\ resp.body.kind = "call_tool_response"
               /\ resp.invoked = ~api_registry[p].queue_mode

\* C40: stop_workers always terminates; when it has returned no worker is
\* left running and the worker list is empty; from then on no Job changes
\* its status; and a Job that was queued or processing when the workers were
\* cancelled never gets a terminal status.
C40_StopWorkersDrains ==
    /\ (stop_pc = "gather") ~> (stop_pc = "done")
    /\ [](stop_pc = "done" =>
            /\ workers = <<>>
            /\ \A w \in Workers : worker_pc[w] = "done")
    /\ [][/\ stop_pc = "done" =>
                \A id \in DOMAIN queue : queue'[id].status = queue[id].status
          /\ stop_pc # "idle" =>
                \A id \in DOMAIN queue :
                    queue[id].status \in {"queued", "processing"}
                        => queue'[id].status \in {"queued", "processing"}]_vars

\* stop_workers has returned while one Job was with a worker and another
\* waited on the channel
C40_Witness ==
    /\ stop_pc = "done"
    /\ workers = <<>>
    /\ \E id \in DOMAIN queue : queue[id].status = "processing"
    /\ \E id \in DOMAIN queue : queue[id].status = "queued" /\ id \in Range(processing_queue)
    /\ \E id \in DOMAIN queue : queue[id].status \in {"completed", "failed"}

TypeOK ==
    /\ DOMAIN queue \subseteq JobIds
    /\ \A id \in DOMAIN queue : queue[id].status \in {"queued", "processing", "completed", "failed"}
    /\ Len(processing_queue) <= max_queue_size
====
